---- MODULE Spec2Model ----
(***************************************************************************)
(* A model of the structured logging library nexuer/log: tagged Values,    *)
(* Fields, Valuer resolution, the handler state machine (accumulation of   *)
(* pre-formatted segments and their replay), the text and JSON encoders,   *)
(* and the Logger facade with its level gate and the locked final write.   *)
(*                                                                         *)
(* Bytes are modelled as sequences of tokens; every token is the string    *)
(* one WriteString / WriteByte / appendString call of the source appends.  *)
(* Bytes(buf) is the concatenation, i.e. the bytes on the wire.            *)
(***************************************************************************)
EXTENDS Integers, Sequences, FiniteSets, TLC

VARIABLES
    handlers,   \* the commonHandler objects allocated so far
    heap,       \* backing arrays of the preformattedAttrs slices
    loggers,    \* the Logger objects allocated so far
    mutexes,    \* holder of every handler mutex ("" = unlocked)
    out,        \* per destination writer: the chunks it has received
    writing,    \* per destination writer: the goroutines inside its Write
    clock,      \* wall clock read by Timestamp valuers
    pc,         \* per goroutine: position inside the operation it runs
    loc,        \* per goroutine: locals of the operation it runs
    done,       \* history: the outcomes of the log calls that have returned
    hist,       \* history: per handler, how it was derived
    probe       \* the input and result of a directly applied function

vars == <<handlers, heap, loggers, mutexes, out, writing, clock, pc, loc, done, hist, probe>>

(***************************************************************************)
(* Bounds of the model.                                                    *)
(***************************************************************************)
MaxHandlers == 3
MaxClock == 1
MaxCalls == 1
\* The longest argument list handed to the coercion of alternating lists.
MaxKvs == 3
\* The most children of a group handed to GroupValue.
MaxChildren == 3
\* How far below LevelDebug and above LevelFatal the levels of the model go.
MaxOffset == 25

(***************************************************************************)
(* Program constants.                                                      *)
(***************************************************************************)
maxValuerValues == 100
LevelDebug == -4
LevelInfo == 0
LevelWarn == 4
LevelError == 8
LevelFatal == 12

LevelKey == "level"
MessageKey == "msg"
NameKey == "logger"
badKey == "<BAD_KEY>"

KindAny == "Any"
KindBool == "Bool"
KindInt64 == "Int64"
KindString == "String"
KindGroup == "Group"
KindValuer == "Valuer"
KindSource == "Source"
KindUint64 == "Uint64"
KindFloat64 == "Float64"
KindDuration == "Duration"
KindTime == "Time"

(***************************************************************************)
(* Value: {num, any, kind}.  The dynamic value held in `any` is a record   *)
(* [t, s, n]: t is its Go type, s and n its payload.  A group keeps its    *)
(* Fields in `group` (the memory groupptr points to).                      *)
(***************************************************************************)
NilAny == [t |-> "nil", s |-> "", n |-> 0]

MkValue(kind, num, any, group) ==
    [kind |-> kind, num |-> num, any |-> any, group |-> group]

ZeroValue == MkValue(KindAny, 0, NilAny, <<>>)

StringValue(str) ==
    MkValue(KindString, Len(str), [t |-> "stringptr", s |-> str, n |-> 0], <<>>)

Int64Value(v) == MkValue(KindInt64, v, NilAny, <<>>)

BoolValue(b) == MkValue(KindBool, IF b THEN 1 ELSE 0, NilAny, <<>>)

Uint64Value(v) == MkValue(KindUint64, v, NilAny, <<>>)

\* The floats of the model, by name, and math.Float64bits of each as a
\* code that is 0 for 0.0 only.
Floats == {"0", "1.5", "NaN"}
Float64bits(f) == CASE f = "0" -> 0 [] f = "1.5" -> 15 [] OTHER -> 99
Float64frombits(n) == CASE n = 0 -> "0" [] n = 15 -> "1.5" [] OTHER -> "NaN"

Float64Value(f) == MkValue(KindFloat64, Float64bits(f), NilAny, <<>>)

\* DurationValue of v nanoseconds.
DurationValue(v) == MkValue(KindDuration, v, NilAny, <<>>)

\* TimeValue: the zero time is a nil *time.Location in `any`, another
\* time is its Unix nanoseconds in num and its location in `any`.
TimeValue(nsec) ==
    IF nsec = 0 THEN MkValue(KindTime, 0, [t |-> "timeLocation", s |-> "nil", n |-> 0], <<>>)
    ELSE MkValue(KindTime, nsec, [t |-> "timeLocation", s |-> "UTC", n |-> 0], <<>>)

SourceValue(file, line) ==
    MkValue(KindSource, 0, [t |-> "*Source", s |-> file, n |-> line], <<>>)

\* AnyValue(err) for an error value: kind Any holding the error.
ErrorValue(msg) == MkValue(KindAny, 0, [t |-> "error", s |-> msg, n |-> 0], <<>>)

\* A Valuer function value; name "nil" is the nil function.
ValuerFn(name, n) == [t |-> "Valuer", s |-> name, n |-> n]

ValuerValue(fn) == MkValue(KindValuer, 0, fn, <<>>)

isEmptyGroup(v) == v.kind = KindGroup /\ v.num = 0

countEmptyGroups(as) == Cardinality({i \in DOMAIN as : isEmptyGroup(as[i].Value)})

\* GroupValue that keeps every child.
GroupValueKeep(as) ==
    MkValue(KindGroup, Len(as), [t |-> "groupptr", s |-> "", n |-> 0], as)

GroupValue(as) ==
    LET as2 == IF countEmptyGroups(as) > 0
               THEN SelectSeq(as, LAMBDA a : ~isEmptyGroup(a.Value))
               ELSE as
    IN MkValue(KindGroup, Len(as2), [t |-> "groupptr", s |-> "", n |-> 0], as2)

(***************************************************************************)
(* Field                                                                   *)
(***************************************************************************)
MkField(key, value) == [Key |-> key, Value |-> value]

EmptyField == MkField("", ZeroValue)

isEmpty(f) == f.Key = "" /\ f.Value.num = 0 /\ f.Value.any = NilAny

(***************************************************************************)
(* Valuers.  A Valuer is a function (ctx) -> Value supplied by the caller; *)
(* the model knows these functions:                                        *)
(*   const(i)   returns ConstVals[i] on every call (replacedValuer)        *)
(*   timestamp  returns the wall clock formatted as a string (Timestamp)   *)
(*   caller     returns a Source whose line depends on the depth carried   *)
(*              by the context (Caller)                                    *)
(*   panic      panics (panickingValuer)                                   *)
(*   chain(n)   returns the Valuer chain(n-1); chain(0) returns "end"      *)
(*   self       returns itself, an endless chain                           *)
(*   bad(i)     returns BadVals[i], a value whose rendering panics         *)
(*   nil        the nil function                                           *)
(* A context is modelled by the caller depth it carries (0 = none).        *)
(***************************************************************************)
ConstVals ==
    << StringValue("v"),
       Int64Value(7),
       Int64Value(0),
       ZeroValue,
       StringValue("a b"),
       GroupValue(<<MkField("a", Int64Value(1))>>) >>

\* Typed nil pointers held in an `any`: a nil *Source, a nil pointer of a
\* type whose Error method, and one of a type whose MarshalText method,
\* reads through the receiver.
NilSource == [t |-> "(*Source)(nil)", s |-> "", n |-> 0]
NilError == [t |-> "(*E)(nil)", s |-> "", n |-> 0]
NilMarshaler == [t |-> "(*T)(nil)", s |-> "", n |-> 0]
NilPointers == {NilSource, NilError, NilMarshaler}

\* A value of a type whose MarshalText method panics with msg.
panickingMarshaler(msg) == [t |-> "panicTM", s |-> msg, n |-> 0]

\* Values whose rendering panics: SourceValue(nil), AnyValue of the nil
\* pointers, AnyValue of the panicking marshaler.
BadVals ==
    << MkValue(KindSource, 0, NilSource, <<>>),
       MkValue(KindAny, 0, NilError, <<>>),
       MkValue(KindAny, 0, NilMarshaler, <<>>),
       MkValue(KindAny, 0, panickingMarshaler("boom"), <<>>) >>

Timestamp == ValuerFn("timestamp", 0)
Caller == ValuerFn("caller", 0)
replacedValuer(i) == ValuerFn("const", i)
panickingValuer == ValuerFn("panic", 0)
nilValuer == ValuerFn("nil", 0)

\* One invocation valuer(ctx) at wall-clock time `now`: [ok, v]; ok = FALSE
\* when the function panics.
CallValuer(fn, ctx, now) ==
    CASE fn.s = "const"     -> [ok |-> TRUE, v |-> ConstVals[fn.n]]
      [] fn.s = "timestamp" -> [ok |-> TRUE, v |-> StringValue("T" \o ToString(now))]
      [] fn.s = "caller"    -> [ok |-> TRUE, v |-> SourceValue("f.go", 10 + ctx)]
      [] fn.s = "chain"     -> [ok |-> TRUE,
                                v |-> IF fn.n = 0 THEN StringValue("end")
                                      ELSE ValuerValue(ValuerFn("chain", fn.n - 1))]
      [] fn.s = "self"      -> [ok |-> TRUE, v |-> ValuerValue(fn)]
      [] fn.s = "bad"       -> [ok |-> TRUE, v |-> BadVals[fn.n]]
      [] OTHER              -> [ok |-> FALSE, v |-> ZeroValue]

\* The record of one Valuer invocation: who called which function, with which
\* context, at which time.
Invocation(fn, ctx, now, by) == [fn |-> fn, ctx |-> ctx, at |-> now, by |-> by]

\* One iteration of the loop of Value.Resolve on [v, calls, returned]:
\* v is the current value, calls the invocations made so far, returned
\* tells that Resolve has returned v.
ResolveCalled(st, r, calls2) ==
    IF ~r.ok
    THEN \* recovered by the deferred function of Resolve
         [v |-> ErrorValue("valuer panicked"), calls |-> calls2, returned |-> TRUE]
    ELSE [v |-> r.v, calls |-> calls2, returned |-> FALSE]

ResolveIteration(st, ctx, now) ==
    IF st.returned THEN st
    ELSE IF st.v.kind # KindValuer THEN [st EXCEPT !.returned = TRUE]
    ELSE IF st.v.any = nilValuer THEN [st EXCEPT !.returned = TRUE]
    ELSE ResolveCalled(st, CallValuer(st.v.any, ctx, now),
                       Append(st.calls, Invocation(st.v.any, ctx, now, "Resolve")))

\* n iterations of the loop.
RECURSIVE ResolveLoop(_, _, _, _)
ResolveLoop(st, ctx, now, n) ==
    IF st.returned \/ n = 0 THEN st
    ELSE IF n = 1 THEN ResolveIteration(st, ctx, now)
    ELSE ResolveLoop(ResolveLoop(st, ctx, now, n \div 2), ctx, now, n - (n \div 2))

\* Value.Resolve: [v, calls]; calls are the invocations made.
ResolveReturn(st) ==
    IF st.returned THEN [v |-> st.v, calls |-> st.calls]
    ELSE [v |-> ErrorValue("valuer called too many times"), calls |-> st.calls]

Resolve(v, ctx, now) ==
    ResolveReturn(ResolveLoop([v |-> v, calls |-> <<>>, returned |-> FALSE],
                              ctx, now, maxValuerValues))

(***************************************************************************)
(* Go values passed as `any` arguments (the kvs of With and of the log     *)
(* calls): [gt, s, n, f] with gt the dynamic type, s / n / f the payload.  *)
(***************************************************************************)
GoVal(gt, str, n, f) == [gt |-> gt, s |-> str, n |-> n, f |-> f]
GoString(str) == GoVal("string", str, 0, EmptyField)
GoInt(n) == GoVal("int", "", n, EmptyField)
GoNil == GoVal("nil", "", 0, EmptyField)
GoValuer(fn) == GoVal("Valuer", fn.s, fn.n, EmptyField)
GoField(f) == GoVal("Field", "", 0, f)
GoValue(v) == GoVal("Value", "", 0, MkField("", v))
\* A []Field, as the caller built it.
GoFields(as) ==
    GoVal("[]Field", "", 0,
          MkField("", MkValue(KindGroup, Len(as), [t |-> "groupptr", s |-> "", n |-> 0], as)))
\* A number of the Go type gt; a float of the Go type gt.
GoNum(gt, n) == GoVal(gt, "", n, EmptyField)
GoFloat(gt, f) == GoVal(gt, f, 0, EmptyField)

AnyValue(x) ==
    CASE x.gt = "string"  -> StringValue(x.s)
      [] x.gt = "int"     -> Int64Value(x.n)
      [] x.gt \in {"int8", "int16", "int32", "int64"} -> Int64Value(x.n)
      [] x.gt \in {"uint", "uint8", "uint16", "uint32", "uint64", "uintptr"} ->
            Uint64Value(x.n)
      [] x.gt \in {"float64", "float32"} -> Float64Value(x.s)
      [] x.gt = "Duration" -> DurationValue(x.n)
      [] x.gt = "Time"    -> TimeValue(x.n)
      [] x.gt = "*Source" -> SourceValue(x.s, x.n)
      [] x.gt = "bool"    -> BoolValue(x.n = 1)
      [] x.gt = "[]Field" -> GroupValue(x.f.Value.group)
      [] x.gt = "Value"   -> x.f.Value
      [] x.gt = "Valuer"  -> ValuerValue(ValuerFn(x.s, x.n))
      [] x.gt = "error"   -> ErrorValue(x.s)
      [] OTHER            -> MkValue(KindAny, 0,
                                     IF x.gt = "nil" THEN NilAny
                                     ELSE [t |-> x.gt, s |-> x.s, n |-> x.n], <<>>)

AnyField(key, x) == MkField(key, AnyValue(x))
StringField(key, str) == MkField(key, StringValue(str))
IntField(key, n) == MkField(key, Int64Value(n))

\* kvsToField that pairs a final string with a missing value instead of
\* making it the value of <BAD_KEY>.
kvsToFieldPaired(kvs) ==
    LET x == kvs[1]
    IN CASE x.gt = "string" ->
              IF Len(kvs) = 1
              THEN [field |-> AnyField(x.s, GoNil), rest |-> <<>>]
              ELSE [field |-> AnyField(x.s, kvs[2]), rest |-> SubSeq(kvs, 3, Len(kvs))]
         [] x.gt = "Field" -> [field |-> x.f, rest |-> Tail(kvs)]
         [] OTHER -> [field |-> AnyField(badKey, x), rest |-> Tail(kvs)]

\* kvsToField: [field, rest].
kvsToField(kvs) ==
    LET x == kvs[1]
    IN CASE x.gt = "string" ->
              IF Len(kvs) = 1
              THEN [field |-> StringField(badKey, x.s), rest |-> <<>>]
              ELSE [field |-> AnyField(x.s, kvs[2]), rest |-> SubSeq(kvs, 3, Len(kvs))]
         [] x.gt = "Field" -> [field |-> x.f, rest |-> Tail(kvs)]
         [] OTHER -> [field |-> AnyField(badKey, x), rest |-> Tail(kvs)]

RECURSIVE kvsToFieldSlice(_)
\* One iteration of the loop of kvsToFieldSlice, r being what kvsToField
\* returned.
kvsToFieldSliceNext(r) == <<r.field>> \o kvsToFieldSlice(r.rest)

kvsToFieldSlice(kvs) ==
    IF Len(kvs) = 0 THEN <<>> ELSE kvsToFieldSliceNext(kvsToField(kvs))

GroupField(key, kvs) == MkField(key, GroupValue(kvsToFieldSlice(kvs)))

(***************************************************************************)
(* Level                                                                   *)
(***************************************************************************)
\* fmt.Sprintf("%s%+d", base, val) and the bare name for val = 0.
LevelStr(base, val) ==
    IF val = 0 THEN base
    ELSE IF val > 0 THEN base \o "+" \o ToString(val)
    ELSE base \o ToString(val)

LevelString(l) ==
    CASE l < LevelInfo  -> LevelStr("DEBUG", l - LevelDebug)
      [] l >= LevelInfo /\ l < LevelWarn   -> LevelStr("INFO", l - LevelInfo)
      [] l >= LevelWarn /\ l < LevelError  -> LevelStr("WARN", l - LevelWarn)
      [] l >= LevelError /\ l < LevelFatal -> LevelStr("ERROR", l - LevelError)
      [] OTHER -> LevelStr("FATAL", l - LevelFatal)

(***************************************************************************)
(* Slices with Go's semantics.  A slice header is [arr, len, cap]; arr     *)
(* indexes `heap`, whose arrays have exactly cap slots.  arr = 0 is nil.   *)
(***************************************************************************)
NoSegment == [bytes |-> <<>>, valuer |-> nilValuer]

NilSlice == [arr |-> 0, len |-> 0, cap |-> 0]

SliceElems(hp, sl) == IF sl.len = 0 THEN <<>> ELSE SubSeq(hp[sl.arr], 1, sl.len)

\* slices.Clip: s[:len(s):len(s)].
Clip(sl) == [sl EXCEPT !.cap = sl.len]

\* The capacity append gives a grown array: at least the needed length, and
\* double the old capacity.
GrowCap(sl) == IF 2 * sl.cap > sl.len + 1 THEN 2 * sl.cap ELSE sl.len + 1

\* append(sl, x): [heap, sl].  In place when capacity is left, else into a
\* fresh array holding a copy.
SliceAppend(hp, sl, x) ==
    IF sl.len < sl.cap
    THEN [heap |-> [hp EXCEPT ![sl.arr][sl.len + 1] = x],
          sl   |-> [sl EXCEPT !.len = sl.len + 1]]
    ELSE LET ncap == GrowCap(sl)
             narr == [i \in 1..ncap |->
                        IF i <= sl.len THEN hp[sl.arr][i]
                        ELSE IF i = sl.len + 1 THEN x ELSE NoSegment]
         IN [heap |-> Append(hp, narr),
             sl   |-> [arr |-> Len(hp) + 1, len |-> sl.len + 1, cap |-> ncap]]

(***************************************************************************)
(* Replacers.  HandlerOptions.Replacer is a caller-supplied function       *)
(* (ctx, groups, Field) -> Field; "nil" is no Replacer.  The model knows:  *)
(*   keep    returns the Field unchanged                                   *)
(*   redact  returns the empty Field for the keys "pw" and "msg", and      *)
(*           renames the key "level" to "severity"                         *)
(***************************************************************************)
Replace(rep, ctx, gs, field) ==
    IF rep = "redact"
    THEN IF field.Key \in {"pw", MessageKey} THEN EmptyField
         ELSE IF field.Key = LevelKey THEN [field EXCEPT !.Key = "severity"]
         ELSE field
    ELSE field

(***************************************************************************)
(* commonHandler and handleState                                           *)
(***************************************************************************)
\* A commonHandler object; mu names the mutex it points to.
MkHandler(json, name, rep, pre, mu) ==
    [json |-> json, name |-> name, rep |-> rep, pre |-> pre, mu |-> mu]

attrSep(json) == IF json THEN "," ELSE " "

\* handleState, together with the handler it points to (json, name, rep,
\* pre), the heap its appends go to, and what the call has done so far:
\* calls (Valuer invocations), reps (Replacer invocations), panicked (a
\* panic is unwinding the call).
newHandleState(h, hp, sep) ==
    [json |-> h.json, name |-> h.name, rep |-> h.rep, pre |-> h.pre,
     heap |-> hp, buf |-> <<>>, sep |-> sep, prefix |-> <<>>,
     groups |-> <<>>, hasGroups |-> h.rep # "nil",
     calls |-> <<>>, reps |-> <<>>, panicked |-> FALSE]

\* buf.WriteString / buf.WriteByte: one token, nothing for the empty string.
Put(s, tok) == IF tok = "" THEN s ELSE [s EXCEPT !.buf = Append(@, tok)]

RECURSIVE Bytes(_)
Bytes(toks) == IF Len(toks) = 0 THEN "" ELSE Head(toks) \o Bytes(Tail(toks))

\* The strings of the model that contain a space or are empty.
needsQuoting(str) ==
    str \in {"", "a b", "hello world", "valuer panicked", "valuer called too many times",
             "!PANIC: boom"}

\* strconv.AppendQuote, for strings that need no escape.
Quote(str) == "\"" \o str \o "\""

appendString(s, str) ==
    IF s.json THEN Put(s, Quote(str))
    ELSE IF needsQuoting(str) THEN Put(s, Quote(str))
    ELSE Put(s, str)

appendKey(s, key) ==
    [Put(appendString(Put(s, s.sep),
                      IF ~s.json /\ Len(s.prefix) > 0
                      THEN Bytes(s.prefix) \o key ELSE key),
         IF s.json THEN ":" ELSE "=")
     EXCEPT !.sep = attrSep(s.json)]

\* *s.groups = append(*s.groups, name), when groups are collected.
pushGroup(s, name) ==
    IF s.hasGroups THEN [s EXCEPT !.groups = Append(@, name)] ELSE s

\* openGroup that leaves the separator as it was.
openGroupKeepSep(s, name) ==
    pushGroup(IF s.json
              THEN Put(appendKey(s, name), "{")
              ELSE [s EXCEPT !.prefix = @ \o <<name, ".">>],
              name)

openGroup(s, name) ==
    pushGroup(IF s.json
              THEN [Put(appendKey(s, name), "{") EXCEPT !.sep = ""]
              ELSE [s EXCEPT !.prefix = @ \o <<name, ".">>],
              name)

\* prefix[:len(prefix)-n]: the prefix without its last n bytes.
RECURSIVE TruncateBytes(_, _)
TruncateBytes(prefix, n) ==
    IF n <= 0 \/ Len(prefix) = 0 THEN prefix
    ELSE TruncateBytes(SubSeq(prefix, 1, Len(prefix) - 1), n - Len(prefix[Len(prefix)]))

\* *s.groups = (*s.groups)[:len(*s.groups)-1], when groups are collected.
popGroup(s) ==
    IF s.hasGroups THEN [s EXCEPT !.groups = SubSeq(@, 1, Len(@) - 1)] ELSE s

\* closeGroup that leaves the text prefix as it was.
closeGroupKeepPrefix(s, name) ==
    popGroup([(IF s.json THEN Put(s, "}") ELSE s) EXCEPT !.sep = attrSep(s.json)])

closeGroup(s, name) ==
    popGroup([(IF s.json
               THEN Put(s, "}")
               ELSE [s EXCEPT !.prefix = TruncateBytes(@, Len(name) + 1)])
              EXCEPT !.sep = attrSep(s.json)])

\* The panic that rendering v raises, before anything is written:
\* source.File, e.Error() and tm.MarshalText() on a nil pointer, and
\* the panic of a MarshalText method.
renderPanic(v) ==
    CASE v.kind = KindSource /\ v.any = NilSource ->
            [panics |-> TRUE, msg |-> "nil pointer dereference"]
      [] v.kind = KindAny /\ v.any \in {NilError, NilMarshaler} ->
            [panics |-> TRUE, msg |-> "nil pointer dereference"]
      [] v.kind = KindAny /\ v.any.t = "panicTM" ->
            [panics |-> TRUE, msg |-> v.any.s]
      [] OTHER -> [panics |-> FALSE, msg |-> ""]

\* Field.String / Value.String as fmt prints them inside a group; fmt
\* recovers the panic of a String method and prints it.
RECURSIVE ValueText(_)
RECURSIVE GroupText(_)
ValueText(v) ==
    CASE v.kind = KindString -> v.any.s
      [] v.kind = KindInt64  -> ToString(v.num)
      [] v.kind = KindBool   -> IF v.num = 1 THEN "true" ELSE "false"
      [] v.kind = KindUint64 -> ToString(v.num)
      [] v.kind = KindFloat64 -> Float64frombits(v.num)
      [] v.kind = KindDuration -> IF v.num = 0 THEN "0s" ELSE ToString(v.num) \o "ns"
      [] v.kind = KindTime   -> "time" \o ToString(v.num)
      [] v.kind = KindGroup  -> "[" \o GroupText(v.group) \o "]"
      [] v.kind = KindValuer -> "<Valuer>"
      [] v.kind = KindSource -> "%!v(PANIC=String method: bad kind: Source)"
      [] OTHER -> IF v.any = NilAny THEN "<nil>" ELSE v.any.s

GroupText(fs) ==
    IF Len(fs) = 0 THEN ""
    ELSE fs[1].Key \o "=" \o ValueText(fs[1].Value)
         \o (IF Len(fs) > 1 THEN " " ELSE "") \o GroupText(Tail(fs))

appendTextValue(s, v) ==
    CASE v.kind = KindSource ->
            IF v.any # NilAny
            THEN Put(Put(Put(s, v.any.s), ":"), ToString(v.any.n))
            ELSE Put(s, "<nil>")
      [] v.kind = KindString -> appendString(s, v.any.s)
      [] v.kind = KindTime -> Put(s, "rfc3339:" \o ToString(v.num))
      [] v.kind = KindAny ->
            IF v.any.t = "error" THEN appendString(s, v.any.s)
            ELSE IF v.any = NilAny THEN appendString(s, "<nil>")
            ELSE appendString(s, v.any.s)
      [] OTHER -> Put(s, ValueText(v))

\* The JSON encoding of a value.
RECURSIVE JSONText(_)
RECURSIVE JSONMembers(_)
JSONText(v) ==
    CASE v.kind = KindString -> Quote(v.any.s)
      [] v.kind = KindInt64  -> ToString(v.num)
      [] v.kind = KindBool   -> IF v.num = 1 THEN "true" ELSE "false"
      [] v.kind = KindUint64 -> ToString(v.num)
      [] v.kind = KindFloat64 -> Float64frombits(v.num)
      [] v.kind = KindDuration -> ToString(v.num)
      [] v.kind = KindGroup  -> "{" \o JSONMembers(v.group) \o "}"
      [] v.kind = KindAny /\ v.any = NilAny -> "null"
      [] v.kind = KindSource -> Quote(v.any.s \o ":" \o ToString(v.any.n))
      [] OTHER -> Quote(ValueText(v))

JSONMembers(fs) ==
    IF Len(fs) = 0 THEN ""
    ELSE Quote(fs[1].Key) \o ":" \o JSONText(fs[1].Value)
         \o (IF Len(fs) > 1 THEN "," ELSE "") \o JSONMembers(Tail(fs))

appendJSONValue(s, v) == Put(s, JSONText(v))

\* appendValue without its deferred recover: the panic of the renderer
\* leaves the call.
appendValueUnrecovered(s, v) ==
    IF renderPanic(v).panics THEN [s EXCEPT !.panicked = TRUE]
    ELSE IF s.json THEN appendJSONValue(s, v) ELSE appendTextValue(s, v)

\* handleState.appendValue: the deferred function recovers the panic of the
\* renderer and appends "<nil>" for a nil pointer, else the panic message.
appendValue(s, v) ==
    IF renderPanic(v).panics
    THEN IF v.any \in NilPointers THEN appendString(s, "<nil>")
         ELSE appendString(s, "!PANIC: " \o renderPanic(v).msg)
    ELSE IF s.json THEN appendJSONValue(s, v) ELSE appendTextValue(s, v)

\* The handleState after an append gave [heap, sl] for preformattedAttrs.
setSegments(s, r) == [s EXCEPT !.heap = r.heap, !.pre = r.sl]

\* append(s.h.preformattedAttrs, seg)
appendSegment(s, seg) == setSegments(s, SliceAppend(s.heap, s.pre, seg))

\* The Replacer call at the head of appendField: [field, s].
replaceField(s, ctx, field) ==
    IF s.rep # "nil" /\ field.Value.kind # KindGroup
    THEN [field |-> Replace(s.rep, ctx, s.groups, field),
          s |-> [s EXCEPT !.reps = Append(@, [groups |-> s.groups, field |-> field])]]
    ELSE [field |-> field, s |-> s]

\* s.appendValue(v.Resolve(ctx)), rv being what Resolve returned.
appendResolved(s, rv) == appendValue([s EXCEPT !.calls = @ \o rv.calls], rv.v)

\* The Valuer branch of appendField, after appendKey gave s1.
appendValuerField(s1, ctx, now, v, isPreformat) ==
    IF isPreformat
    THEN [appendSegment(s1, [bytes |-> s1.buf, valuer |-> v.any]) EXCEPT !.buf = <<>>]
    ELSE appendResolved(s1, Resolve(v, ctx, now))

\* The tail of appendFields: the bytes left in the buffer become a segment.
appendFieldsEnd(s1, isPreformat, isGroup) ==
    IF isPreformat /\ ~isGroup /\ Len(s1.buf) > 0
    THEN appendSegment(s1, [bytes |-> s1.buf, valuer |-> nilValuer])
    ELSE s1

\* openGroup / closeGroup unless the group is inlined (empty key).
openNamed(s, key) == IF key # "" THEN openGroup(s, key) ELSE s
closeNamed(s, key) == IF key # "" THEN closeGroup(s, key) ELSE s

RECURSIVE appendField(_, _, _, _, _)
RECURSIVE appendFieldsLoop(_, _, _, _, _)

\* The loop of appendFields over the fields.
appendFieldsLoop(s, ctx, now, fields, isPreformat) ==
    IF Len(fields) = 0 THEN s
    ELSE appendFieldsLoop(appendField(s, ctx, now, fields[1], isPreformat),
                          ctx, now, Tail(fields), isPreformat)

appendFields(s, ctx, now, fields, isPreformat, isGroup) ==
    appendFieldsEnd(appendFieldsLoop(s, ctx, now, fields, isPreformat),
                    isPreformat, isGroup)

\* appendField after the Replacer call gave `field`.
appendReplaced(s, ctx, now, field, isPreformat) ==
    IF isEmpty(field) THEN s
    ELSE IF field.Value.kind = KindValuer
    THEN appendValuerField(appendKey(s, field.Key), ctx, now, field.Value, isPreformat)
    ELSE IF field.Value.kind = KindGroup
    THEN IF Len(field.Value.group) = 0 THEN s
         ELSE closeNamed(appendFields(openNamed(s, field.Key), ctx, now,
                                      field.Value.group, isPreformat, TRUE),
                         field.Key)
    ELSE appendValue(appendKey(s, field.Key), field.Value)

\* appendField, r being what the Replacer call gave.
appendFieldOf(r, ctx, now, isPreformat) ==
    appendReplaced(r.s, ctx, now, r.field, isPreformat)

appendField(s, ctx, now, field, isPreformat) ==
    appendFieldOf(replaceField(s, ctx, field), ctx, now, isPreformat)

\* A clone that keeps the spare capacity of the receiver's slice.
cloneUnclipped(h) == MkHandler(h.json, h.name, h.rep, h.pre, h.mu)

\* commonHandler.clone
clone(h) == MkHandler(h.json, h.name, h.rep, Clip(h.pre), h.mu)

\* What withFields returns once appendFields left the state s1 on the
\* clone h2.
withFieldsReturn(h2, s1) ==
    [same |-> FALSE, h |-> [h2 EXCEPT !.pre = s1.pre],
     heap |-> s1.heap, calls |-> s1.calls]

\* withFields on the clone h2.
withFieldsOn(h2, hp, ctx, now, fields) ==
    withFieldsReturn(h2, appendFields(newHandleState(h2, hp, attrSep(h2.json)),
                                      ctx, now, fields, TRUE, FALSE))

\* withFields without the test for a list of empty groups.
withFieldsUnchecked(h, hp, ctx, now, fields) ==
    withFieldsOn(clone(h), hp, ctx, now, fields)

\* commonHandler.withFields: [same, h, heap, calls]; same = TRUE when the
\* receiver itself is returned.
withFields(h, hp, ctx, now, fields) ==
    IF countEmptyGroups(fields) = Len(fields)
    THEN [same |-> TRUE, h |-> h, heap |-> hp, calls |-> <<>>]
    ELSE withFieldsOn(clone(h), hp, ctx, now, fields)

\* The handler and heap of what withFields returned.
builtHandler(r) == [h |-> r.h, heap |-> r.heap]

\* newCommonHandler: [h, heap]; `mu` is the fresh mutex allocated for it.
newCommonHandler(hp, json, name, rep, mu) ==
    IF json /\ name # ""
    THEN builtHandler(withFields(MkHandler(json, name, rep, NilSlice, mu), hp, 0, 0,
                                 <<StringField(NameKey, name)>>))
    ELSE [h |-> MkHandler(json, name, rep, NilSlice, mu), heap |-> hp]

\* attr.valuer(ctx) returned r: a panic leaves handle, a value is resolved
\* and appended.
appendCalled(s, r, ctx, now) ==
    IF ~r.ok
    THEN \* nothing recovers this panic
         [s EXCEPT !.panicked = TRUE]
    ELSE appendResolved(s, Resolve(r.v, ctx, now))

\* The Valuer of one segment.
appendSegmentValuer(s, ctx, now, fn) ==
    IF fn # nilValuer
    THEN appendCalled([s EXCEPT !.calls = Append(@, Invocation(fn, ctx, now, "handle"))],
                      CallValuer(fn, ctx, now), ctx, now)
    ELSE s

\* One iteration of the loop of appendPreformattedAttrs.
appendPreformattedAttr(s, ctx, now, attr) ==
    appendSegmentValuer(IF Len(attr.bytes) > 0
                        THEN [s EXCEPT !.buf = @ \o attr.bytes] ELSE s,
                        ctx, now, attr.valuer)

\* appendPreformattedAttrs, segment i onwards.
RECURSIVE appendPreformattedFrom(_, _, _, _, _)
appendPreformattedFrom(s, ctx, now, attrs, i) ==
    IF i > Len(attrs) \/ s.panicked THEN s
    ELSE appendPreformattedFrom(appendPreformattedAttr(s, ctx, now, attrs[i]),
                                ctx, now, attrs, i + 1)

appendPreformattedAttrs(s, ctx, now) ==
    IF s.pre.len = 0 THEN s
    ELSE appendPreformattedFrom(s, ctx, now, SliceElems(s.heap, s.pre), 1)

RECURSIVE appendNonBuiltIns(_, _, _, _)
\* One iteration of the loop of appendNonBuiltIns, r being what kvsToField
\* returned.
appendNonBuiltInsNext(s, ctx, now, r) ==
    appendNonBuiltIns(appendField(s, ctx, now, r.field, FALSE), ctx, now, r.rest)

appendNonBuiltIns(s, ctx, now, kvs) ==
    IF Len(kvs) = 0 THEN s ELSE appendNonBuiltInsNext(s, ctx, now, kvsToField(kvs))

\* The Replacer call handle makes for a built-in attribute; the result is
\* dropped.
replaceBuiltIn(s, field) ==
    IF s.rep # "nil"
    THEN [s EXCEPT !.reps = Append(@, [groups |-> <<>>, field |-> field])]
    ELSE s

\* handle: the opening brace of JSON, the [name] prefix of text.
handleOpen(s) ==
    IF s.json THEN Put(s, "{")
    ELSE IF s.name # "" THEN Put(Put(Put(s, "["), s.name), "] ")
    ELSE s

\* handle: the level, with state.groups set aside.
handleLevel(s, levelStr) ==
    IF s.json
    THEN appendString(appendKey(replaceBuiltIn([s EXCEPT !.hasGroups = FALSE],
                                               StringField(LevelKey, levelStr)),
                                LevelKey),
                      levelStr)
    ELSE [appendString(replaceBuiltIn([s EXCEPT !.hasGroups = FALSE],
                                      StringField(LevelKey, levelStr)),
                       levelStr)
          EXCEPT !.sep = attrSep(s.json)]

\* handle: the message, after the Replacer saw it.
appendMessage(s, msg) ==
    IF msg # "" THEN appendString(appendKey(s, MessageKey), msg) ELSE s

handleMessage(s, msg) == appendMessage(replaceBuiltIn(s, StringField(MessageKey, msg)), msg)

\* handle: the closing brace of JSON and the newline.
handleClose(s) == Put(IF s.json THEN Put(s, "}") ELSE s, "\n")

\* handle after appendPreformattedAttrs gave s5: a panic of an accumulated
\* Valuer leaves handle, else the message and the attributes of the call
\* follow, with state.groups restored.
handleRest(s5, stateGroups, ctx, now, msg, kvs) ==
    IF s5.panicked THEN s5
    ELSE handleClose(appendNonBuiltIns([handleMessage(s5, msg)
                                           EXCEPT !.hasGroups = stateGroups],
                                       ctx, now, kvs))

\* handle from the built-in attributes on; s2.hasGroups is stateGroups.
handleBuiltIns(s2, ctx, now, levelStr, msg, kvs) ==
    handleRest(appendPreformattedAttrs(handleLevel(s2, levelStr), ctx, now),
               s2.hasGroups, ctx, now, msg, kvs)

\* commonHandler.handle up to the newline: the final handleState.  Its buf
\* is the line handed to the writer unless the call panicked.
handleFormat(h, hp, ctx, now, level, msg, kvs) ==
    handleBuiltIns(handleOpen(newHandleState(h, hp, "")), ctx, now,
                   LevelString(level), msg, kvs)

(***************************************************************************)
(* The state machine.                                                      *)
(***************************************************************************)
Goroutines == {"g1", "g2"}
Writers == {"w1", "w2"}

\* A Logger object; handler = 0 is the nil Handler, w = "discard" the
\* wrapped io.Discard.
MkLogger(ctx, level, handler, w) ==
    [ctx |-> ctx, level |-> level, handler |-> handler, w |-> w]

\* The segments of a handler, read through the heap.
Segments(hp, h) == SliceElems(hp, h.pre)

Idle == [op |-> "none"]

\* What the history keeps of a handler: the handler it was derived from
\* (0 for a root), how many handlers there were when its withFields call
\* began, the context, time and Fields of that call, the segments it had
\* when it was returned, and the Valuer invocations made while it was built.
Derivation(parent, began, ctx, now, fields, segs, evals) ==
    [parent |-> parent, began |-> began, ctx |-> ctx, at |-> now, fields |-> fields,
     segs |-> segs, evals |-> evals]

\* One root handler description: the arguments of Text(opts) / Json(opts).
RootOpts(json, name, rep) == [json |-> json, name |-> name, rep |-> rep]

\* The tables after New(w, Text(opts)) / New(w, Json(opts)) was called for
\* each of roots, in order: every call makes a fresh root handler with a
\* fresh mutex and a Logger at level 0 (LevelInfo) on it.
RECURSIVE Construct(_, _)
\* The tables t with one more root: r is what newCommonHandler returned for
\* the options o of root number n.
Constructed(t, r, o, n, w) ==
    [handlers |-> Append(t.handlers, r.h),
     heap |-> r.heap,
     loggers |-> Append(t.loggers, MkLogger(0, LevelInfo, n, w)),
     mutexes |-> Append(t.mutexes, ""),
     hist |-> Append(t.hist,
                Derivation(0, n - 1, 0, 0,
                           IF o.json /\ o.name # ""
                           THEN <<StringField(NameKey, o.name)>> ELSE <<>>,
                           Segments(r.heap, r.h), <<>>))]

\* New for the root with options o on the tables t.
ConstructOn(t, o, n, w) ==
    Constructed(t, newCommonHandler(t.heap, o.json, o.name, o.rep, Len(t.mutexes) + 1),
                o, n, w)

Construct(roots, w) ==
    IF Len(roots) = 0
    THEN [handlers |-> <<>>, heap |-> <<>>, loggers |-> <<>>, mutexes |-> <<>>, hist |-> <<>>]
    ELSE ConstructOn(Construct(SubSeq(roots, 1, Len(roots) - 1), w),
                     roots[Len(roots)], Len(roots), w)

\* The state whose tables are t, with nothing written and no call made, for
\* a function applied to the inputs p.
InitTables(t, p) ==
    /\ handlers = t.handlers
    /\ heap = t.heap
    /\ loggers = t.loggers
    /\ mutexes = t.mutexes
    /\ hist = t.hist
    /\ out = [x \in Writers |-> <<>>]
    /\ writing = [x \in Writers |-> {}]
    /\ clock = 0
    /\ pc = [g \in Goroutines |-> "idle"]
    /\ loc = [g \in Goroutines |-> Idle]
    /\ done = <<>>
    /\ probe = p

\* The state after the program constructed its loggers, for a function
\* applied to the inputs p.
InitProbe(roots, w, p) == InitTables(Construct(roots, w), p)

\* The state after the program constructed its loggers.
InitWith(roots, w) == InitProbe(roots, w, Idle)

Names == {"", "svc"}
Replacers == {"nil", "redact"}
Contexts == {0, 1}

Init ==
    \E json \in BOOLEAN, name \in Names, rep \in Replacers :
        InitWith(<<RootOpts(json, name, rep)>>, "w1")

\* The log calls started so far: those that returned and those in progress.
Started == Len(done) + Cardinality({g \in Goroutines : loc[g].op = "Log"})

\* The return of With, r being what withFields returned: the receiver when
\* withFields returned its receiver, else a new Logger on the new handler.
WithReturn(l, fields, r) ==
    IF r.same
    THEN UNCHANGED <<handlers, heap, loggers, hist>>
    ELSE /\ Len(handlers) < MaxHandlers
         /\ handlers' = Append(handlers, r.h)
         /\ heap' = r.heap
         /\ hist' = Append(hist, Derivation(loggers[l].handler, Len(handlers),
                                            loggers[l].ctx, clock, fields,
                                            Segments(r.heap, r.h), r.calls))
         /\ loggers' = Append(loggers,
                              [loggers[l] EXCEPT !.handler = Len(handlers) + 1])

\* l2.handler = l.handler.With(kvs...), for the Fields made of kvs.
WithHandler(l, fields) ==
    WithReturn(l, fields,
               withFields(handlers[loggers[l].handler], heap, loggers[l].ctx, clock, fields))

\* Logger.With(kvs...) run to completion by goroutine g.  With no kvs, or on
\* a Logger without handler, it returns the receiver; when withFields
\* returns its receiver the new Logger shares the handler.
With(g, l, kvs) ==
    /\ pc[g] = "idle"
    /\ l \in DOMAIN loggers
    /\ IF Len(kvs) = 0 \/ loggers[l].handler = 0
       THEN UNCHANGED <<handlers, heap, loggers, hist>>
       ELSE WithHandler(l, kvsToFieldSlice(kvs))
    /\ UNCHANGED <<mutexes, out, writing, clock, pc, loc, done, probe>>

\* Logger.SetLevel(level)
SetLevel(g, l, level) ==
    /\ pc[g] = "idle"
    /\ l \in DOMAIN loggers
    /\ loggers[l].level # level
    /\ loggers' = [loggers EXCEPT ![l].level = level]
    /\ UNCHANGED <<handlers, heap, mutexes, out, writing, clock, pc, loc, done, hist, probe>>

\* Logger.SetHandler(h); h = 0 is SetHandler(nil).
SetHandler(g, l, h) ==
    /\ pc[g] = "idle"
    /\ l \in DOMAIN loggers
    /\ h \in {0} \cup DOMAIN handlers
    /\ loggers[l].handler # h
    /\ loggers' = [loggers EXCEPT ![l].handler = h]
    /\ UNCHANGED <<handlers, heap, mutexes, out, writing, clock, pc, loc, done, hist, probe>>

\* The wall clock advances.
Tick ==
    /\ clock < MaxClock
    /\ clock' = clock + 1
    /\ UNCHANGED <<handlers, heap, loggers, mutexes, out, writing, pc, loc, done, hist, probe>>

\* A gate that also shuts out the minimum level itself.
enableAbove(l, level) == level > l.level

\* Logger.enable
enable(l, level) == level >= l.level

\* The outcome of one log call, as its caller sees it: the arguments, the
\* time, how many handlers there were, whether Handle was invoked, the final handleState (line, Valuer and
\* Replacer invocations), the number of Write calls, the error returned and
\* whether a panic left the call.
LogResult(g, l, ctx, w, level, msg, kvs, now, invoked, s, wrote, err, panicked) ==
    [g |-> g, logger |-> l, handler |-> loggers[l].handler,
     nhandlers |-> Len(handlers), ctx |-> ctx, w |-> w,
     level |-> level, minLevel |-> loggers[l].level,
     msg |-> msg, kvs |-> kvs, at |-> now, invoked |-> invoked,
     line |-> s.buf, calls |-> s.calls, reps |-> s.reps,
     wrote |-> wrote, err |-> err, panicked |-> panicked]

NoState == [buf |-> <<>>, calls |-> <<>>, reps |-> <<>>, panicked |-> FALSE]

\* What handle leaves before the locked write, s being the handleState with
\* the formatted line: it returns on a panic and for a nil or discarding
\* writer.
handled(s, w) ==
    [returns |-> s.panicked \/ w \in {"nil", "discard"},
     invoked |-> TRUE, s |-> s, err |-> "nil"]

\* Logger.LogContextTo(ctx, w, level, msg, kvs...) before the locked write:
\* [returns, invoked, s, err]; returns = FALSE when the Write is still to be
\* made.
logContextTo(l, ctx, w, level, msg, kvs) ==
    IF (msg = "" /\ Len(kvs) = 0) \/ ~enable(loggers[l], level)
    THEN [returns |-> TRUE, invoked |-> FALSE, s |-> NoState, err |-> "nil"]
    ELSE IF loggers[l].handler = 0
    THEN [returns |-> TRUE, invoked |-> FALSE, s |-> NoState,
          err |-> "logger handler is nil"]
    ELSE handled(handleFormat(handlers[loggers[l].handler], heap, ctx, clock,
                              level, msg, kvs), w)

\* The end of LogContextTo, r being what logContextTo gave: the call returns,
\* after the locked Write of the line when one is to be made.
LogReturn(g, l, ctx, w, level, msg, kvs, r) ==
    IF r.returns
    THEN /\ done' = Append(done, LogResult(g, l, ctx, w, level, msg, kvs, clock,
                                           r.invoked, r.s, 0, r.err, r.s.panicked))
         /\ UNCHANGED out
    ELSE /\ mutexes[handlers[loggers[l].handler].mu] = ""
         /\ out' = [out EXCEPT ![w] = Append(@, [g |-> g, bytes |-> r.s.buf, last |-> TRUE])]
         /\ done' = Append(done, LogResult(g, l, ctx, w, level, msg, kvs, clock,
                                           TRUE, r.s, 1, "nil", FALSE))

\* LogContextTo run to completion by goroutine g: the gate, Handle, and the
\* locked Write.  Log, LogContext and LogTo are this call with ctx = l.ctx
\* and / or w = l.w.
LogContextTo(g, l, ctx, w, level, msg, kvs) ==
    /\ pc[g] = "idle"
    /\ l \in DOMAIN loggers
    /\ Started < MaxCalls
    /\ LogReturn(g, l, ctx, w, level, msg, kvs, logContextTo(l, ctx, w, level, msg, kvs))
    /\ UNCHANGED <<handlers, heap, loggers, mutexes, writing, clock, pc, loc, hist, probe>>

(***************************************************************************)
(* Spec: one goroutine builds loggers with New and With and logs through   *)
(* them while the clock advances.                                          *)
(***************************************************************************)
\* kvs of With calls.
WithInputs ==
    { <<GoString("k"), GoInt(1), GoString("c"), GoValuer(Caller), GoString("pw"), GoString("v")>>,
      <<GoString("p"), GoValuer(panickingValuer)>>,
      <<GoField(GroupField("g", <<GoString("a"), GoInt(2), GoString("ts"), GoValuer(Timestamp)>>)),
        GoField(GroupField("e", <<>>))>>,
      <<GoField(GroupField("e", <<>>))>>,
      <<>> }

\* level, msg and kvs of log calls.
LogInput(level, msg, kvs) == [level |-> level, msg |-> msg, kvs |-> kvs]

LogInputs ==
    { LogInput(LevelInfo, "hello", <<>>),
      LogInput(LevelWarn, "", <<GoString("x"), GoInt(3), GoString("c"), GoValuer(Caller)>>),
      LogInput(LevelInfo, "hello world",
               <<GoString("p"), GoValuer(panickingValuer),
                 GoField(GroupField("g", <<GoString("a"), GoInt(2)>>)), GoString("dangling")>>),
      LogInput(LevelDebug, "hello", <<GoString("x"), GoInt(3)>>) }

Next ==
    \/ \E l \in DOMAIN loggers, kvs \in WithInputs : With("g1", l, kvs)
    \/ Tick
    \/ \E l \in DOMAIN loggers, in \in LogInputs :
          LogContextTo("g1", l, loggers[l].ctx, loggers[l].w, in.level, in.msg, in.kvs)
    \/ \E l \in DOMAIN loggers, in \in LogInputs :
          LogContextTo("g1", l, 1, "discard", in.level, in.msg, in.kvs)

Spec == Init /\ [][Next]_vars

(***************************************************************************)
(* SpecGate: the gate of LogContextTo.  One logger is constructed; its     *)
(* level and handler are set, loggers are derived from it, and log calls   *)
(* of every level, with and without message and attributes, are made.      *)
(***************************************************************************)
GateLevels == {LevelDebug, LevelInfo, LevelWarn}
GateMessages == {"", "hello"}
GateKvs == { <<>>, <<GoString("x"), GoInt(3)>> }
GateWithInputs == { <<GoString("ts"), GoValuer(Timestamp)>>, <<>> }

InitGate == \E json \in BOOLEAN : InitWith(<<RootOpts(json, "", "nil")>>, "w1")

NextGate ==
    \/ \E l \in DOMAIN loggers, kvs \in GateWithInputs : With("g1", l, kvs)
    \/ \E l \in DOMAIN loggers, level \in {LevelInfo, LevelWarn} : SetLevel("g1", l, level)
    \/ \E l \in DOMAIN loggers : SetHandler("g1", l, 0)
    \/ \E l \in DOMAIN loggers, level \in GateLevels, msg \in GateMessages, kvs \in GateKvs :
          LogContextTo("g1", l, loggers[l].ctx, loggers[l].w, level, msg, kvs)
    \/ \E l \in DOMAIN loggers, level \in GateLevels, msg \in GateMessages, kvs \in GateKvs :
          LogContextTo("g1", l, 1, "discard", level, msg, kvs)

SpecGate == InitGate /\ [][NextGate]_vars

\* The calls that returned.
Returned == {done[i] : i \in DOMAIN done}

\* The condition under which a call is not skipped.
Passes(r) == r.level >= r.minLevel /\ (r.msg # "" \/ Len(r.kvs) > 0)

\* Nothing was encoded by call r: no byte, no Valuer and no Replacer call.
NothingEncoded(r) ==
    r.line = <<>> /\ r.calls = <<>> /\ r.reps = <<>> /\ r.wrote = 0

\* The number of Write calls the returned calls made on destination w.
RECURSIVE WritesTo(_, _)
WritesTo(w, i) ==
    IF i = 0 THEN 0
    ELSE WritesTo(w, i - 1) + (IF done[i].w = w THEN done[i].wrote ELSE 0)

\* C1 (as amended): on a logger that has a handler, the handler is invoked
\* if and only if level >= the logger's minimum level and the call has a
\* non-empty message or at least one attribute; a call that does not pass
\* returns nil and encodes and writes nothing, whatever the handler has
\* accumulated; a passing call on a logger whose handler is nil returns the
\* error "logger handler is nil" and encodes and writes nothing.
C1_Gate ==
    /\ \A r \in Returned :
          /\ r.invoked <=> (Passes(r) /\ r.handler # 0)
          /\ ~Passes(r) => (r.err = "nil" /\ NothingEncoded(r))
          /\ (Passes(r) /\ r.handler = 0) =>
                (r.err = "logger handler is nil" /\ NothingEncoded(r))
    /\ \A w \in Writers : Len(out[w]) = WritesTo(w, Len(done))

\* C1 witness: a call with a message, below the minimum level that SetLevel
\* raised, through a handler holding a Valuer segment, was skipped.
C1_Witness ==
    \E r \in Returned :
        /\ r.handler # 0 /\ r.msg # ""
        /\ r.minLevel = LevelWarn /\ r.level = LevelInfo
        /\ \E seg \in {Segments(heap, handlers[r.handler])[i] :
                          i \in DOMAIN Segments(heap, handlers[r.handler])} :
              seg.valuer # nilValuer
        /\ ~r.invoked /\ r.err = "nil"

\* C1 as stated: the handler is invoked if and only if the call passes.
C1_Original == \A r \in Returned : r.invoked <=> Passes(r)

(***************************************************************************)
(* Lines.                                                                  *)
(***************************************************************************)
\* The calls that returned after Handle built a complete line.
Emitted == {r \in Returned : r.invoked /\ ~r.panicked}

IsPrefix(p, q) == Len(p) <= Len(q) /\ SubSeq(q, 1, Len(p)) = p

\* The bytes a line starts with when the logger name comes first and the
\* level second.
NameThenLevel(h, level) ==
    IF h.json
    THEN <<"{">>
         \o (IF h.name # "" THEN <<Quote(NameKey), ":", Quote(h.name), ",">> ELSE <<>>)
         \o <<Quote(LevelKey), ":", Quote(LevelString(level))>>
    ELSE (IF h.name # "" THEN <<"[", h.name, "] ">> ELSE <<>>)
         \o <<LevelString(level)>>

\* C2: every emitted line starts with the logger name (if configured)
\* followed by the level, and ends with its only newline.
C2_LineOrder ==
    \A r \in Emitted :
        /\ IsPrefix(NameThenLevel(handlers[r.handler], r.level), r.line)
        /\ r.line[Len(r.line)] = "\n"
        /\ \A i \in 1..(Len(r.line) - 1) : r.line[i] # "\n"

\* C3: in JSON mode with a configured Name, the first member of every
\* emitted object is "logger" with the name as its value, whatever chain of
\* With calls built the handler.
C3_LoggerFirst ==
    \A r \in Emitted :
        (handlers[r.handler].json /\ handlers[r.handler].name # "") =>
            IsPrefix(<<"{", Quote(NameKey), ":", Quote(handlers[r.handler].name)>>, r.line)

(***************************************************************************)
(* Concurrency.  Two goroutines derive handlers and log at the same time.  *)
(* withFields runs one top-level Field per step; a log call runs as        *)
(* format / Lock / Write / Unlock, and the destination receives the bytes  *)
(* of one Write in two parts.                                              *)
(***************************************************************************)
MaxConcHandlers == MaxHandlers + 1
MaxConcCalls == MaxCalls + 1

\* The withFields calls in progress.
Deriving == {g \in Goroutines : loc[g].op = "With"}

\* withFields is entered with `fields`, none of them to be appended yet.
WithEnter(g, l, fields) ==
    /\ countEmptyGroups(fields) # Len(fields)
    /\ loc' = [loc EXCEPT ![g] =
                 [op |-> "With", logger |-> l, parent |-> loggers[l].handler,
                  began |-> Len(handlers), fields |-> fields,
                  todo |-> fields,
                  s |-> newHandleState(clone(handlers[loggers[l].handler]), <<>>,
                                       attrSep(handlers[loggers[l].handler].json))]]
    /\ pc' = [pc EXCEPT ![g] = "with"]

\* withFields up to and including clone and newHandleState.
WithBegin(g, l, kvs) ==
    /\ pc[g] = "idle"
    /\ l \in DOMAIN loggers
    /\ loggers[l].handler # 0
    /\ Len(kvs) > 0
    /\ Len(handlers) + Cardinality(Deriving) < MaxConcHandlers
    /\ WithEnter(g, l, kvsToFieldSlice(kvs))
    /\ UNCHANGED <<handlers, heap, loggers, mutexes, out, writing, clock, done, hist, probe>>

\* appendField left the handleState s1: its appends are in the heap, the
\* rest is the goroutine's own.
WithAppended(g, s1) ==
    /\ heap' = s1.heap
    /\ loc' = [loc EXCEPT ![g].s = [s1 EXCEPT !.heap = <<>>],
                          ![g].todo = Tail(@)]

\* One iteration of the loop of appendFields in withFields.
WithStep(g) ==
    /\ pc[g] = "with"
    /\ Len(loc[g].todo) > 0
    /\ WithAppended(g, appendField([loc[g].s EXCEPT !.heap = heap],
                                   loggers[loc[g].logger].ctx,
                                   clock, Head(loc[g].todo), TRUE))
    /\ UNCHANGED <<handlers, loggers, mutexes, out, writing, clock, pc, done, hist, probe>>

\* withFields returns the clone of p with the segments of s1, and With the
\* clone of Logger l on it.
WithReturned(g, l, p, s1) ==
    /\ heap' = s1.heap
    /\ handlers' = Append(handlers, MkHandler(p.json, p.name, p.rep, s1.pre, p.mu))
    /\ hist' = Append(hist, Derivation(loc[g].parent, loc[g].began, loggers[l].ctx, clock,
                                       loc[g].fields, SliceElems(s1.heap, s1.pre),
                                       s1.calls))
    /\ loggers' = Append(loggers, [loggers[l] EXCEPT !.handler = Len(handlers) + 1])

\* The end of appendFields and of withFields: the rest of the buffer becomes
\* the last segment, h2 is returned and Logger.With stores it in the clone
\* of the Logger.
WithEnd(g) ==
    /\ pc[g] = "with"
    /\ Len(loc[g].todo) = 0
    /\ WithReturned(g, loc[g].logger, handlers[loc[g].parent],
                    appendFields([loc[g].s EXCEPT !.heap = heap],
                                 loggers[loc[g].logger].ctx, clock, <<>>, TRUE, FALSE))
    /\ loc' = [loc EXCEPT ![g] = Idle]
    /\ pc' = [pc EXCEPT ![g] = "idle"]
    /\ UNCHANGED <<mutexes, out, writing, clock, done, probe>>

\* A Lock that never waits.
LockableAlways(mu) == TRUE

\* sync.Mutex.Lock returns only when the mutex is free.
Lockable(mu) == mutexes[mu] = ""

\* The call returns `res`, or goes on to lock the mutex of its handler.
LogProceed(g, l, returns, res) ==
    IF returns
    THEN /\ done' = Append(done, res)
         /\ UNCHANGED <<pc, loc>>
    ELSE /\ loc' = [loc EXCEPT ![g] =
                      [op |-> "Log", mu |-> handlers[loggers[l].handler].mu,
                       res |-> res]]
         /\ pc' = [pc EXCEPT ![g] = "lock"]
         /\ UNCHANGED done

\* logContextTo gave r.
LogFormatted(g, l, ctx, w, level, msg, kvs, r) ==
    LogProceed(g, l, r.returns,
               LogResult(g, l, ctx, w, level, msg, kvs, clock,
                         r.invoked, r.s, 0, r.err, r.s.panicked))

\* LogContextTo up to the point where handle has its line: the gate, the
\* encoding, and the return for nil / Discard writers.
LogStart(g, l, ctx, w, level, msg, kvs) ==
    /\ pc[g] = "idle"
    /\ l \in DOMAIN loggers
    /\ Started < MaxConcCalls
    /\ LogFormatted(g, l, ctx, w, level, msg, kvs,
                    logContextTo(l, ctx, w, level, msg, kvs))
    /\ UNCHANGED <<handlers, heap, loggers, mutexes, out, writing, clock, hist, probe>>

\* h.mu.Lock()
LogLock(g) ==
    /\ pc[g] = "lock"
    /\ Lockable(loc[g].mu)
    /\ mutexes' = [mutexes EXCEPT ![loc[g].mu] = g]
    /\ pc' = [pc EXCEPT ![g] = "write"]
    /\ UNCHANGED <<handlers, heap, loggers, out, writing, clock, loc, done, hist, probe>>

\* w.Write(*state.buf) is entered: the destination takes the first byte.
LogWrite(g) ==
    /\ pc[g] = "write"
    /\ LET w == loc[g].res.w
           line == loc[g].res.line
       IN /\ writing' = [writing EXCEPT ![w] = @ \cup {g}]
          /\ out' = [out EXCEPT ![w] =
                        Append(@, [g |-> g, bytes |-> SubSeq(line, 1, 1), last |-> FALSE])]
    /\ pc' = [pc EXCEPT ![g] = "writing"]
    /\ UNCHANGED <<handlers, heap, loggers, mutexes, clock, loc, done, hist, probe>>

\* w.Write returns: the destination has taken the rest of the line.
LogWritten(g) ==
    /\ pc[g] = "writing"
    /\ LET w == loc[g].res.w
           line == loc[g].res.line
       IN /\ writing' = [writing EXCEPT ![w] = @ \ {g}]
          /\ out' = [out EXCEPT ![w] =
                        Append(@, [g |-> g, bytes |-> SubSeq(line, 2, Len(line)),
                                   last |-> TRUE])]
    /\ pc' = [pc EXCEPT ![g] = "unlock"]
    /\ UNCHANGED <<handlers, heap, loggers, mutexes, clock, loc, done, hist, probe>>

\* The deferred h.mu.Unlock() and the return of the call.
LogUnlock(g) ==
    /\ pc[g] = "unlock"
    /\ mutexes' = [mutexes EXCEPT ![loc[g].mu] = ""]
    /\ done' = Append(done, [loc[g].res EXCEPT !.wrote = 1])
    /\ loc' = [loc EXCEPT ![g] = Idle]
    /\ pc' = [pc EXCEPT ![g] = "idle"]
    /\ UNCHANGED <<handlers, heap, loggers, out, writing, clock, hist, probe>>

(***************************************************************************)
(* SpecWith: concurrent With calls.  The program starts with one logger    *)
(* whose handler holds three segments (a root handler extended once, as    *)
(* Manager.set does with the Manager's fields); two goroutines derive      *)
(* loggers from every logger there is, and log through them.               *)
(***************************************************************************)
ManagerFields ==
    <<GoString("a"), GoValuer(Caller), GoString("b"), GoValuer(Timestamp),
      GoString("k"), GoInt(1)>>

ConcWithInputs ==
    { <<GoString("x"), GoInt(1)>>,
      <<GoString("y"), GoValuer(Timestamp), GoString("z"), GoInt(2)>> }

\* The tables after Manager.set: the root handler of InitWith, and the
\* logger moved to root.WithFields(fields).
Managed(t, fields, r) ==
    [handlers |-> Append(t.handlers, r.h),
     heap |-> r.heap,
     loggers |-> <<MkLogger(0, LevelInfo, 2, "w1")>>,
     mutexes |-> t.mutexes,
     hist |-> Append(t.hist, Derivation(1, 1, 0, 0, fields, Segments(r.heap, r.h), r.calls))]

\* Manager.set on the tables t of the root handler.
ManagedOn(t, fields) == Managed(t, fields, withFields(t.handlers[1], t.heap, 0, 0, fields))

InitManaged(json, name, kvs) ==
    InitTables(ManagedOn(Construct(<<RootOpts(json, name, "nil")>>, "w1"),
                         kvsToFieldSlice(kvs)),
               Idle)

InitWithConc == \E json \in BOOLEAN : InitManaged(json, "", ManagerFields)

NextWith ==
    \/ \E g \in Goroutines, l \in DOMAIN loggers, kvs \in ConcWithInputs : WithBegin(g, l, kvs)
    \/ \E g \in Goroutines : WithStep(g)
    \/ \E g \in Goroutines : WithEnd(g)
    \/ Tick
    \/ \E g \in Goroutines, l \in DOMAIN loggers :
          LogContextTo(g, l, loggers[l].ctx, loggers[l].w, LevelInfo, "hello", <<>>)

SpecWith == InitWithConc /\ [][NextWith]_vars

(***************************************************************************)
(* SpecWrite: concurrent log calls.  The program starts as a Manager with  *)
(* one added logger leaves it: two loggers, each on its own root handler,  *)
(* both writing to os.Stderr ("w1").  Loggers are derived from them, and   *)
(* two goroutines log through any of them.                                 *)
(***************************************************************************)
WriteLogInputs ==
    { LogInput(LevelInfo, "hello", <<>>),
      LogInput(LevelWarn, "", <<GoString("x"), GoInt(3)>>) }

InitWrite ==
    \E json \in BOOLEAN :
        InitWith(<<RootOpts(json, "svc", "nil"), RootOpts(json, "grpc", "nil")>>, "w1")

NextWrite ==
    \/ \E g \in Goroutines, l \in DOMAIN loggers : With(g, l, <<GoString("x"), GoInt(1)>>)
    \/ \E g \in Goroutines, l \in DOMAIN loggers, in \in WriteLogInputs :
          LogStart(g, l, loggers[l].ctx, loggers[l].w, in.level, in.msg, in.kvs)
    \/ \E g \in Goroutines, l \in DOMAIN loggers :
          LogStart(g, l, 1, "discard", LevelInfo, "hello", <<>>)
    \/ \E g \in Goroutines : LogLock(g)
    \/ \E g \in Goroutines : LogWrite(g)
    \/ \E g \in Goroutines : LogWritten(g)
    \/ \E g \in Goroutines : LogUnlock(g)

SpecWrite == InitWrite /\ [][NextWrite]_vars

\* Handler i with its segments as they were when it was returned, on a heap
\* of its own.
Isolated(i) ==
    LET n == Len(hist[i].segs)
    IN [h |-> [handlers[i] EXCEPT !.pre = IF n = 0 THEN NilSlice
                                          ELSE [arr |-> 1, len |-> n, cap |-> n]],
        heap |-> IF n = 0 THEN <<>> ELSE <<hist[i].segs>>]

\* The segments of the handler withFields returned as r.
SegmentsOf(r) == Segments(r.heap, r.h)

\* The segments withFields gives on the isolated handler p for derivation d.
DerivedFrom(p, d) == SegmentsOf(withFields(p.h, p.heap, d.ctx, d.at, d.fields))

\* The segments withFields gives handler i when nothing else runs.
DerivedAlone(i) == DerivedFrom(Isolated(hist[i].parent), hist[i])

\* The line of call r through the isolated handler p.
LineFrom(p, r) == handleFormat(p.h, p.heap, r.ctx, r.at, r.level, r.msg, r.kvs).buf

\* The line of call r when the handler's segments are those it was returned
\* with.
LineAlone(r) == LineFrom(Isolated(r.handler), r)

\* C4: withFields never changes its receiver.  Every handler keeps the
\* segment list it was returned with, and every line emitted through it is
\* the line of that list; a derived handler's list is its parent's list
\* followed by exactly the segments of its own Fields, so the parent's list
\* is a prefix of it and no sibling's attribute is in it, under every
\* interleaving of the With calls.
C4_ReceiverUnchanged ==
    /\ \A i \in DOMAIN handlers :
          /\ Segments(heap, handlers[i]) = hist[i].segs
          /\ hist[i].parent # 0 =>
                /\ IsPrefix(hist[hist[i].parent].segs, hist[i].segs)
                /\ hist[i].segs = DerivedAlone(i)
    /\ \A r \in Emitted : r.line = LineAlone(r)

\* C4 witness: two handlers were derived from the same parent by With calls
\* that overlapped (the earlier one was returned after the later one had
\* begun), and a line was then emitted through the parent.
C4_Witness ==
    \E i, j \in DOMAIN handlers :
        /\ j < i
        /\ hist[i].parent = hist[j].parent /\ hist[i].parent # 0
        /\ hist[i].began < j
        /\ hist[i].fields # hist[j].fields
        /\ \E r \in Emitted : r.handler = hist[i].parent /\ r.nhandlers >= i

\* The root handler that handler i was derived from.
RECURSIVE RootOf(_)
RootOf(i) == IF hist[i].parent = 0 THEN i ELSE RootOf(hist[i].parent)

\* The log calls that are inside the destination's Write.
InWrite == {g \in Goroutines : pc[g] = "writing"}

\* Call r made one Write on its destination, and that Write carried its line.
OneCompleteWrite(r) ==
    /\ r.wrote = 1
    /\ \E i, j \in DOMAIN out[r.w] :
          /\ i < j
          /\ out[r.w][i].g = r.g /\ ~out[r.w][i].last
          /\ out[r.w][j].g = r.g /\ out[r.w][j].last
          /\ out[r.w][i].bytes \o out[r.w][j].bytes = r.line

\* The Write calls begun on destination w.
WritesBegun(w) == Cardinality({i \in DOMAIN out[w] : ~out[w][i].last})

\* C5: every handler has the mutex of the root it was derived from; two
\* log calls through handlers of one root are never inside Write at the
\* same moment; every call that reaches the writer makes exactly one Write,
\* carrying its complete line.
C5_RootMutex ==
    /\ \A i \in DOMAIN handlers : handlers[i].mu = handlers[RootOf(i)].mu
    /\ \A g1, g2 \in InWrite :
          g1 # g2 => RootOf(loc[g1].res.handler) # RootOf(loc[g2].res.handler)
    /\ \A r \in Emitted : r.w \notin {"nil", "discard"} => OneCompleteWrite(r)
    /\ \A w \in Writers :
          WritesBegun(w) = Cardinality({i \in DOMAIN done : done[i].w = w /\ done[i].wrote = 1})
                           + Cardinality({g \in Goroutines : pc[g] \in {"writing", "unlock"}
                                                             /\ loc[g].res.w = w})

\* C5 witness: one call is inside Write while a call through another
\* handler of the same root waits for the mutex.
C5_Witness ==
    \E g1, g2 \in Goroutines :
        /\ pc[g1] = "writing" /\ pc[g2] = "lock"
        /\ loc[g1].res.handler # loc[g2].res.handler
        /\ RootOf(loc[g1].res.handler) = RootOf(loc[g2].res.handler)
        /\ ~Lockable(loc[g2].mu)

\* C6: at most one Write is in progress on a destination, and the bytes of
\* one line are never followed by bytes of another line before it is
\* complete.
C6_Serialized ==
    \A w \in Writers :
        /\ Cardinality(writing[w]) <= 1
        /\ \A i \in DOMAIN out[w] :
              out[w][i].last => (i > 1 /\ out[w][i - 1].g = out[w][i].g
                                       /\ ~out[w][i - 1].last)

(***************************************************************************)
(* Valuers.                                                                *)
(***************************************************************************)
\* The Valuers held by the segments of handler i, in order.
RECURSIVE ValuersOf(_)
ValuersOf(segs) ==
    IF Len(segs) = 0 THEN <<>>
    ELSE (IF segs[1].valuer # nilValuer THEN <<segs[1].valuer>> ELSE <<>>)
         \o ValuersOf(Tail(segs))

\* The invocations call r must make of the accumulated Valuers fns: each
\* once, in order, with the context and at the time of the call.
RECURSIVE OncePerCall(_, _)
OncePerCall(fns, r) ==
    IF Len(fns) = 0 THEN <<>>
    ELSE <<Invocation(fns[1], r.ctx, r.at, "handle")>> \o OncePerCall(Tail(fns), r)

IsHandleCall(c) == c.by = "handle"

\* What a Timestamp Valuer invoked at time t is rendered as.
TimestampToken(h, t) ==
    IF h.json THEN Quote("T" \o ToString(t)) ELSE "T" \o ToString(t)

Tokens(line) == {line[i] : i \in DOMAIN line}

\* C7: no Valuer is invoked while a handler is built; every log call that
\* reaches the handler invokes each accumulated Valuer exactly once, with
\* the call's context; an accumulated Timestamp is rendered as the time of
\* the log call, never as the time of the With call.
C7_Deferred ==
    /\ \A i \in DOMAIN handlers : hist[i].evals = <<>>
    /\ \A r \in Returned :
          r.invoked =>
             SelectSeq(r.calls, IsHandleCall) = OncePerCall(ValuersOf(hist[r.handler].segs), r)
    /\ \A r \in Emitted :
          Timestamp \in Tokens(ValuersOf(hist[r.handler].segs)) =>
             /\ TimestampToken(handlers[r.handler], r.at) \in Tokens(r.line)
             /\ \A t \in 0..MaxClock :
                   t # r.at => TimestampToken(handlers[r.handler], t) \notin Tokens(r.line)

(***************************************************************************)
(* SpecRoundTrip: the literal and the deferred path of With.  The inputs   *)
(* are a handler (format, Replacer), a key, a constant value, its place    *)
(* (top level or inside a group) and the attributes around it; the step    *)
(* builds one handler with With(k, v), one with With(k, Valuer returning   *)
(* v), and logs the same call through both.                                *)
(***************************************************************************)
RoundTripKeys == {"k", ""}
RoundTripBefore == { <<>>, <<GoString("b"), GoValuer(Caller)>> }
RoundTripAfter == { <<>>, <<GoString("z"), GoInt(2)>> }

\* The kvs of the With call around the attribute <<k, x>>.
RoundTripKvs(k, x, inGroup, before, after) ==
    IF inGroup
    THEN <<GoField(GroupField("g", before \o <<GoString(k), x>> \o after))>>
    ELSE before \o <<GoString(k), x>> \o after

\* The line of Log(LevelInfo, "hello", "x", 3) through the handler r.
LineOf(r) ==
    Bytes(handleFormat(r.h, r.heap, 0, 1, LevelInfo, "hello",
                       <<GoString("x"), GoInt(3)>>).buf)

\* What With(kvs...) makes of the handler r0.
DerivedOf(r0, kvs) == withFields(r0.h, r0.heap, 0, 0, kvsToFieldSlice(kvs))

\* The line of Log(LevelInfo, "hello", "x", 3) through New(w, h).With(kvs...).
BuiltLine(json, rep, kvs) == LineOf(DerivedOf(newCommonHandler(<<>>, json, "", rep, 1), kvs))

InitRoundTrip ==
    \E json \in BOOLEAN, rep \in Replacers, k \in RoundTripKeys, i \in DOMAIN ConstVals,
       inGroup \in BOOLEAN, before \in RoundTripBefore, after \in RoundTripAfter :
        InitProbe(<<>>, "w1",
                  [op |-> "input", json |-> json, rep |-> rep, k |-> k, i |-> i,
                   inGroup |-> inGroup, before |-> before, after |-> after])

RoundTrip ==
    /\ probe.op = "input"
    /\ probe' = [op |-> "lines", json |-> probe.json, rep |-> probe.rep, k |-> probe.k,
                 i |-> probe.i, inGroup |-> probe.inGroup,
                 literal |-> BuiltLine(probe.json, probe.rep,
                                RoundTripKvs(probe.k, GoValue(ConstVals[probe.i]),
                                             probe.inGroup, probe.before, probe.after)),
                 deferred |-> BuiltLine(probe.json, probe.rep,
                                RoundTripKvs(probe.k, GoValuer(replacedValuer(probe.i)),
                                             probe.inGroup, probe.before, probe.after))]
    /\ UNCHANGED <<handlers, heap, loggers, mutexes, out, writing, clock, pc, loc, done, hist>>

NextRoundTrip == RoundTrip

SpecRoundTrip == InitRoundTrip /\ [][NextRoundTrip]_vars

\* C8: the handler built with the literal and the handler built with the
\* constant Valuer emit the same bytes for the same log call.
C8_RoundTrip == probe.op = "lines" => probe.literal = probe.deferred

\* Call r invoked a Valuer that panicked.
PanicRaised(r) == \E i \in DOMAIN r.calls : ~CallValuer(r.calls[i].fn, r.calls[i].ctx, r.calls[i].at).ok

\* C9: no panic of a Valuer leaves a log call; the call returns, its line
\* is complete, and the Valuer's value is rendered as the error value.
C9_PanicContained ==
    \A r \in Returned :
        r.invoked =>
            /\ ~r.panicked
            /\ r.line # <<>> /\ r.line[Len(r.line)] = "\n"
            /\ PanicRaised(r) => Quote("valuer panicked") \in Tokens(r.line)

(***************************************************************************)
(* SpecResolve: Value.Resolve applied to a Value.  The inputs are the      *)
(* constant values, and Valuers of every behaviour: returning a constant,  *)
(* the time, the caller, panicking, chains of Valuers shorter and longer   *)
(* than maxValuerValues, the endless chain, and the nil function.          *)
(***************************************************************************)
ChainLengths == {0, 1, 2, maxValuerValues - 2, maxValuerValues - 1, maxValuerValues}

ResolveInputs ==
    {ConstVals[i] : i \in DOMAIN ConstVals}
    \cup {ValuerValue(replacedValuer(i)) : i \in DOMAIN ConstVals}
    \cup {ValuerValue(ValuerFn("chain", n)) : n \in ChainLengths}
    \cup {ValuerValue(Timestamp), ValuerValue(Caller), ValuerValue(panickingValuer),
          ValuerValue(ValuerFn("self", 0)), ValuerValue(nilValuer)}

InitResolve ==
    \E v \in ResolveInputs, ctx \in Contexts, now \in 0..MaxClock :
        InitProbe(<<>>, "w1", [op |-> "value", v |-> v, ctx |-> ctx, now |-> now])

\* The inputs p with what Resolve returned for them.
Resolved(p, r) ==
    [op |-> "resolved", v |-> p.v, ctx |-> p.ctx, now |-> p.now,
     rv |-> r.v, ncalls |-> Len(r.calls)]

ResolveValue ==
    /\ probe.op = "value"
    /\ probe' = Resolved(probe, Resolve(probe.v, probe.ctx, probe.now))
    /\ UNCHANGED <<handlers, heap, loggers, mutexes, out, writing, clock, pc, loc, done, hist>>

NextResolve == ResolveValue

SpecResolve == InitResolve /\ [][NextResolve]_vars

\* C10: the Value that Resolve returns is never of kind Valuer.
C10_NeverValuer == probe.op = "resolved" => probe.rv.kind # KindValuer

\* The number of Valuer invocations the chain that starts at the Valuer fn
\* needs to reach a value that is not a Valuer: chain(n) is n + 1 Valuers
\* long, the endless chain needs more than any bound.
Needs(fn) ==
    CASE fn.s = "chain" -> fn.n + 1
      [] fn.s = "self"  -> maxValuerValues + 1
      [] OTHER          -> 1

\* The inputs whose chain of Valuers ends in a value that is not a Valuer.
EndsInValue(v) ==
    /\ v.kind = KindValuer
    /\ v.any.s \in {"const", "timestamp", "caller", "chain"}

\* The value at the end of the chain of Valuers that starts at fn.
EndOf(fn, ctx, now) ==
    IF fn.s = "chain" THEN StringValue("end") ELSE CallValuer(fn, ctx, now).v

TooManyTimes == ErrorValue("valuer called too many times")

\* C11: Resolve makes at most 100 Valuer invocations; a chain of Valuers
\* that ends in a value within 100 invocations resolves to that value, and
\* the error for too many calls is returned only for a chain that needs more
\* than 100 invocations.
C11_ResolveBound ==
    probe.op = "resolved" =>
        /\ probe.ncalls <= maxValuerValues
        /\ (EndsInValue(probe.v) /\ Needs(probe.v.any) <= maxValuerValues) =>
              probe.rv = EndOf(probe.v.any, probe.ctx, probe.now)
        /\ probe.rv = TooManyTimes =>
              (probe.v.kind = KindValuer /\ Needs(probe.v.any) > maxValuerValues)

(***************************************************************************)
(* SpecRender: values whose rendering panics.  The inputs are a handler    *)
(* (format, Replacer), a key, a value of BadVals, the way it reaches the   *)
(* handler (a literal or the result of a Valuer, accumulated through With  *)
(* or passed to the log call), its place (top level or inside a group)     *)
(* and the attributes around it; the step logs one call with the value and *)
(* one with the string of its placeholder in the same place.               *)
(***************************************************************************)
RenderPlaces == {"With", "WithValuer", "Log", "LogValuer"}

\* The handleState handle leaves for the call Log(LevelInfo, "hello", kvs...)
\* through the handler r.
RenderedBy(r, kvs) == handleFormat(r.h, r.heap, 0, 1, LevelInfo, "hello", kvs)

\* The handleState of the call for the attribute list kvs in the place.
Rendered(json, rep, place, kvs) ==
    IF place \in {"With", "WithValuer"}
    THEN RenderedBy(DerivedOf(newCommonHandler(<<>>, json, "", rep, 1), kvs),
                    <<GoString("x"), GoInt(3)>>)
    ELSE RenderedBy(newCommonHandler(<<>>, json, "", rep, 1), kvs)

\* The placeholder for BadVals[i]: "<nil>" for the nil pointers, the panic
\* message for the panicking method.
Placeholder(i) == IF BadVals[i].any \in NilPointers THEN "<nil>" ELSE "!PANIC: boom"

\* The value as the caller passes it.
RenderArg(place, i) ==
    IF place \in {"WithValuer", "LogValuer"} THEN GoValuer(ValuerFn("bad", i))
    ELSE GoValue(BadVals[i])

InitRender ==
    \E json \in BOOLEAN, rep \in Replacers, k \in RoundTripKeys, i \in DOMAIN BadVals,
       place \in RenderPlaces, inGroup \in BOOLEAN,
       before \in RoundTripBefore, after \in RoundTripAfter :
        InitProbe(<<>>, "w1",
                  [op |-> "render", json |-> json, rep |-> rep, k |-> k, i |-> i,
                   place |-> place, inGroup |-> inGroup, before |-> before,
                   after |-> after])

\* The inputs p with the state s of the call and the state e of the call
\* that has the placeholder string in place of the value.
RenderResult(p, s, e) ==
    [op |-> "rendered", json |-> p.json, rep |-> p.rep, k |-> p.k, i |-> p.i,
     place |-> p.place, inGroup |-> p.inGroup,
     line |-> s.buf, panicked |-> s.panicked, expected |-> e.buf]

Render ==
    /\ probe.op = "render"
    /\ probe' = RenderResult(probe,
                    Rendered(probe.json, probe.rep, probe.place,
                             RoundTripKvs(probe.k, RenderArg(probe.place, probe.i),
                                          probe.inGroup, probe.before, probe.after)),
                    Rendered(probe.json, probe.rep, probe.place,
                             RoundTripKvs(probe.k, GoString(Placeholder(probe.i)),
                                          probe.inGroup, probe.before, probe.after)))
    /\ UNCHANGED <<handlers, heap, loggers, mutexes, out, writing, clock, pc, loc, done, hist>>

NextRender == Render

SpecRender == InitRender /\ [][NextRender]_vars

\* C12: a panic of the renderer of one value is caught in appendValue.  The
\* call does not panic, its line ends with the newline, and the line is the
\* line of the same call with the placeholder ("<nil>" or the "!PANIC: "
\* message) as the value: every other attribute is emitted unchanged.
C12_RenderPanicCaught ==
    probe.op = "rendered" =>
        /\ ~probe.panicked
        /\ Len(probe.line) > 0
        /\ probe.line[Len(probe.line)] = "\n"
        /\ probe.line = probe.expected

\* C12 witness: a text line of a log call whose own attribute, between two
\* others, has the panicking marshaler as value and shows the marker.
C12_Witness ==
    /\ probe.op = "rendered"
    /\ probe.place = "Log" /\ ~probe.json /\ probe.i = 4 /\ probe.k = "k"
    /\ \E j \in 2..(Len(probe.line) - 1) :
          /\ probe.line[j] = Quote("!PANIC: boom")
          /\ probe.line[j - 1] = "="
          /\ \E m \in (j + 1)..Len(probe.line) : probe.line[m] = "z"
    /\ \E j \in DOMAIN probe.line : probe.line[j] = "b"

(***************************************************************************)
(* SpecGroup: groups none of whose children is rendered.  The inputs are a *)
(* handler (format, Replacer), a group, the way it reaches the handler     *)
(* (accumulated through With or passed to the log call), its place (top    *)
(* level or inside another group) and the attributes around it; the step   *)
(* logs one call with the group and one without it.                        *)
(***************************************************************************)
\* Groups: without children, with an empty Field as only child, with a child
\* the Replacer "redact" elides, and with a group of an empty Field as only
\* child.
UnrenderedGroups ==
    [none     |-> MkField("g", GroupValue(<<>>)),
     empty    |-> MkField("g", GroupValue(<<EmptyField>>)),
     redacted |-> MkField("g", GroupValue(<<StringField("pw", "v")>>)),
     nested   |-> MkField("g", GroupValue(<<MkField("h", GroupValue(<<EmptyField>>))>>))]

\* None of the children of the group is rendered by a handler with the
\* Replacer rep.
NoneRendered(kind, rep) == kind = "redacted" => rep = "redact"

\* The attribute list around the Fields xs.
GroupKvs(xs, inGroup, before, after) ==
    IF inGroup
    THEN <<GoField(GroupField("o", before \o xs \o after))>>
    ELSE before \o xs \o after

InitGroup ==
    \E json \in BOOLEAN, rep \in Replacers, kind \in DOMAIN UnrenderedGroups,
       place \in {"With", "Log"}, inGroup \in BOOLEAN,
       before \in RoundTripBefore, after \in RoundTripAfter :
        InitProbe(<<>>, "w1",
                  [op |-> "group", json |-> json, rep |-> rep, kind |-> kind,
                   place |-> place, inGroup |-> inGroup, before |-> before,
                   after |-> after])

\* The inputs p with the state s of the call that has the group and the
\* state e of the call that has not.
GroupResult(p, s, e) ==
    [op |-> "grouped", json |-> p.json, rep |-> p.rep, kind |-> p.kind,
     place |-> p.place, inGroup |-> p.inGroup, line |-> s.buf, expected |-> e.buf]

RenderGroup ==
    /\ probe.op = "group"
    /\ probe' = GroupResult(probe,
                    Rendered(probe.json, probe.rep, probe.place,
                             GroupKvs(<<GoField(UnrenderedGroups[probe.kind])>>,
                                      probe.inGroup, probe.before, probe.after)),
                    Rendered(probe.json, probe.rep, probe.place,
                             GroupKvs(<<>>, probe.inGroup, probe.before, probe.after)))
    /\ UNCHANGED <<handlers, heap, loggers, mutexes, out, writing, clock, pc, loc, done, hist>>

NextGroup == RenderGroup

SpecGroup == InitGroup /\ [][NextGroup]_vars

\* C13: a group none of whose children is rendered leaves no trace: the
\* line of the call is the line of the same call without the group, in JSON
\* and in text, accumulated or passed to the call, at every depth.
C13_NoTrace ==
    (probe.op = "grouped" /\ NoneRendered(probe.kind, probe.rep)) =>
        probe.line = probe.expected

(***************************************************************************)
(* The handler of src/handler.go.  The repository holds a second copy of   *)
(* the common handler: its appendFields takes the name of the enclosing    *)
(* group, its segments carry the key of their Valuer, and it has neither   *)
(* a Replacer call nor a name prefix.  The definitions below are that      *)
(* copy; they work on the same handleState record.                         *)
(***************************************************************************)
handler_openGroup(s, name) ==
    IF name = "" \/ ~s.json THEN s
    ELSE [Put(appendKey(s, name), "{") EXCEPT !.sep = ""]

handler_closeGroup(s, name) ==
    IF name = "" THEN s
    ELSE [(IF s.json THEN Put(s, "}") ELSE s) EXCEPT !.sep = attrSep(s.json)]

\* key := a.Key, prefixed with the group in text.
handler_key(s, group, key) ==
    IF ~s.json /\ group # "" THEN group \o "." \o key ELSE key

\* A segment of bytes; a segment of a Valuer and its key.
handler_bytes(bytes) == [bytes |-> bytes, key |-> "", valuer |-> nilValuer]
handler_valuer(key, fn) == [bytes |-> <<>>, key |-> key, valuer |-> fn]

\* The bytes written so far become a segment; the buffer is replaced by a
\* fresh one only when the Valuer is not the last Field of its list.
handler_checkpoint(s, isLast) ==
    IF Len(s.buf) = 0 THEN s
    ELSE IF isLast THEN appendSegment(s, handler_bytes(s.buf))
    ELSE [appendSegment(s, handler_bytes(s.buf)) EXCEPT !.buf = <<>>]

\* The Valuer branch of appendFields.
handler_appendValuer(s, ctx, now, key, v, isPreformat, isLast) ==
    IF isPreformat
    THEN appendSegment(handler_checkpoint(s, isLast), handler_valuer(key, v.any))
    ELSE appendResolved(appendKey(s, key), Resolve(v, ctx, now))

RECURSIVE handler_appendFields(_, _, _, _, _, _)
RECURSIVE handler_appendFieldsFrom(_, _, _, _, _, _, _)

\* One iteration of the loop of appendFields for the non-empty Field a.
handler_appendOne(s, ctx, now, key, a, isPreformat, isLast) ==
    IF a.Value.kind = KindValuer
    THEN handler_appendValuer(s, ctx, now, key, a.Value, isPreformat, isLast)
    ELSE IF a.Value.kind = KindGroup
    THEN IF Len(a.Value.group) = 0 THEN s
         ELSE handler_appendFields(s, ctx, now, key, a.Value.group, isPreformat)
    ELSE appendValue(appendKey(s, key), a.Value)

\* The loop of appendFields, Field i onwards.
handler_appendFieldsFrom(s, ctx, now, group, fields, isPreformat, i) ==
    IF i > Len(fields) THEN s
    ELSE handler_appendFieldsFrom(
             IF isEmpty(fields[i]) THEN s
             ELSE handler_appendOne(s, ctx, now, handler_key(s, group, fields[i].Key),
                                    fields[i], isPreformat, i = Len(fields)),
             ctx, now, group, fields, isPreformat, i + 1)

\* The tail of appendFields.
handler_appendFieldsEnd(s, group, isPreformat) ==
    IF isPreformat /\ group = "" /\ Len(s.buf) > 0
    THEN appendSegment(s, handler_bytes(s.buf))
    ELSE s

handler_appendFields(s, ctx, now, group, fields, isPreformat) ==
    handler_appendFieldsEnd(
        handler_closeGroup(
            handler_appendFieldsFrom(handler_openGroup(s, group), ctx, now, group,
                                     fields, isPreformat, 1),
            group),
        group, isPreformat)

\* commonHandler.withFields of handler.go: [h, heap].
handler_withFields(h, hp, fields) ==
    IF countEmptyGroups(fields) = Len(fields) THEN [h |-> h, heap |-> hp]
    ELSE builtHandler(withFieldsReturn(clone(h),
             handler_appendFields(newHandleState(clone(h), hp, attrSep(h.json)),
                                  0, 0, "", fields, TRUE)))

\* s.appendValue(attr.valuer(ctx)), r being what the Valuer returned.
handler_appendCalled(s, r) ==
    IF ~r.ok THEN [s EXCEPT !.panicked = TRUE] ELSE appendValue(s, r.v)

\* One iteration of the loop of appendPreformattedAttrs on [s, prevBytes].
handler_appendPreformattedAttr(st, ctx, now, attr) ==
    IF attr.valuer # nilValuer
    THEN [s |-> handler_appendCalled(appendKey(st.s, attr.key),
                                     CallValuer(attr.valuer, ctx, now)),
          prevBytes |-> FALSE]
    ELSE IF Len(attr.bytes) > 0
    THEN [s |-> [st.s EXCEPT !.buf = @ \o attr.bytes,
                             !.sep = IF st.prevBytes THEN "" ELSE @],
          prevBytes |-> TRUE]
    ELSE st

RECURSIVE handler_appendPreformattedFrom(_, _, _, _, _)
handler_appendPreformattedFrom(st, ctx, now, attrs, i) ==
    IF i > Len(attrs) \/ st.s.panicked THEN st
    ELSE handler_appendPreformattedFrom(
             handler_appendPreformattedAttr(st, ctx, now, attrs[i]),
             ctx, now, attrs, i + 1)

handler_appendPreformattedAttrs(s, ctx, now) ==
    IF s.pre.len = 0 THEN s
    ELSE [handler_appendPreformattedFrom([s |-> s, prevBytes |-> FALSE], ctx, now,
                                         SliceElems(s.heap, s.pre), 1).s
          EXCEPT !.sep = attrSep(s.json)]

RECURSIVE handler_appendByAnyFields(_, _, _, _)
\* One iteration of the loop of appendByAnyFields, r being what kvsToField
\* returned.
handler_appendByAnyNext(s, ctx, now, r) ==
    handler_appendByAnyFields(handler_appendFields(s, ctx, now, "", <<r.field>>, FALSE),
                              ctx, now, r.rest)

handler_appendByAnyFields(s, ctx, now, kvs) ==
    IF Len(kvs) = 0 THEN s ELSE handler_appendByAnyNext(s, ctx, now, kvsToField(kvs))

\* handle of handler.go: the level.
handler_handleLevel(s, levelStr) ==
    IF s.json THEN appendString(appendKey(Put(s, "{"), LevelKey), levelStr)
    ELSE [appendString(s, levelStr) EXCEPT !.sep = attrSep(s.json)]

\* handle of handler.go after appendPreformattedAttrs gave s1.
handler_handleRest(s1, ctx, now, msg, kvs) ==
    IF s1.panicked THEN s1
    ELSE handleClose(handler_appendByAnyFields(appendMessage(s1, msg), ctx, now, kvs))

\* commonHandler.handle of handler.go up to the newline.
handler_handle(h, hp, ctx, now, level, msg, kvs) ==
    handler_handleRest(
        handler_appendPreformattedAttrs(
            handler_handleLevel(newHandleState(h, hp, ""), LevelString(level)), ctx, now),
        ctx, now, msg, kvs)

(***************************************************************************)
(* SpecAccumulate: attributes accumulated through two With calls, with a   *)
(* Valuer first, between literals, last, alone or inside a group, and the  *)
(* line a later log call writes, through each of the two copies of the     *)
(* handler that the repository holds.                                      *)
(***************************************************************************)
Implementations == {"part_001", "handler.go"}

\* kvs of the With calls.
AccLists ==
    << <<GoString("ts"), GoValuer(Timestamp), GoString("a"), GoInt(1)>>,
       <<GoString("a"), GoInt(1), GoString("c"), GoValuer(Caller), GoString("b"), GoInt(2)>>,
       <<GoString("a"), GoInt(1), GoString("ts"), GoValuer(Timestamp)>>,
       <<GoString("b"), GoInt(2)>>,
       <<GoString("c"), GoValuer(Caller)>>,
       <<GoField(GroupField("g", <<GoString("a"), GoInt(1), GoString("ts"), GoValuer(Timestamp)>>)),
         GoString("b"), GoInt(2)>>,
       <<>> >>

\* The keys of the attributes of `fields` as a line names them, in order:
\* text prefixes the key with its groups, JSON quotes it.
RECURSIVE LeafKeys(_, _, _)
LeafKeys(fields, group, json) ==
    IF Len(fields) = 0 THEN <<>>
    ELSE (IF isEmpty(fields[1]) THEN <<>>
          ELSE IF fields[1].Value.kind = KindGroup
          THEN LeafKeys(fields[1].Value.group,
                        IF json THEN "" ELSE group \o fields[1].Key \o ".", json)
          ELSE <<IF json THEN Quote(fields[1].Key) ELSE group \o fields[1].Key>>)
         \o LeafKeys(Tail(fields), group, json)

\* The tokens that are keys of accumulated attributes.
AccKeyTokens ==
    {"a", "b", "c", "ts", "g.a", "g.ts"}
        \cup {Quote(k) : k \in {"a", "b", "c", "ts"}}

IsAccKey(tok) == tok \in AccKeyTokens

\* With(kvs...) on the handler r of handler.go.
handler_With(r, kvs) == handler_withFields(r.h, r.heap, kvsToFieldSlice(kvs))

\* The line of Log(LevelInfo, "hello", "x", 3) through the handler d.
AccLineOf(impl, d, ctx, now) ==
    IF impl = "handler.go"
    THEN handler_handle(d.h, d.heap, ctx, now, LevelInfo, "hello",
                        <<GoString("x"), GoInt(3)>>).buf
    ELSE handleFormat(d.h, d.heap, ctx, now, LevelInfo, "hello",
                      <<GoString("x"), GoInt(3)>>).buf

\* The handler of New(w, h).With(kvs1...).With(kvs2...).
AccHandler(impl, json, kvs1, kvs2) ==
    IF impl = "handler.go"
    THEN handler_With(handler_With([h |-> MkHandler(json, "", "nil", NilSlice, 1),
                                    heap |-> <<>>], kvs1), kvs2)
    ELSE DerivedOf(DerivedOf(newCommonHandler(<<>>, json, "", "nil", 1), kvs1), kvs2)

InitAccumulate ==
    \E impl \in Implementations, json \in BOOLEAN, first \in DOMAIN AccLists,
       second \in DOMAIN AccLists, ctx \in Contexts, now \in 0..MaxClock :
        InitProbe(<<>>, "w1",
                  [op |-> "accumulate", impl |-> impl, json |-> json, first |-> first,
                   second |-> second, ctx |-> ctx, now |-> now])

Accumulate ==
    /\ probe.op = "accumulate"
    /\ probe' = [op |-> "accumulated", impl |-> probe.impl, json |-> probe.json,
                 first |-> probe.first, second |-> probe.second,
                 line |-> AccLineOf(probe.impl,
                                    AccHandler(probe.impl, probe.json,
                                               AccLists[probe.first],
                                               AccLists[probe.second]),
                                    probe.ctx, probe.now),
                 keys |-> LeafKeys(kvsToFieldSlice(AccLists[probe.first])
                                       \o kvsToFieldSlice(AccLists[probe.second]),
                                   "", probe.json)]
    /\ UNCHANGED <<handlers, heap, loggers, mutexes, out, writing, clock, pc, loc, done, hist>>

NextAccumulate == Accumulate

SpecAccumulate == InitAccumulate /\ [][NextAccumulate]_vars

\* C14: the keys of the accumulated attributes appear in the line of a later
\* log call exactly once each, in accumulation order, wherever the Valuers
\* stand in the accumulated lists and across two With calls.
C14_ExactlyOnce ==
    probe.op = "accumulated" => SelectSeq(probe.line, IsAccKey) = probe.keys

(***************************************************************************)
(* SpecNoop: With calls that accumulate nothing.  The inputs are a         *)
(* receiver (a root handler, or one derived from it), a Field list made of *)
(* empty groups only, the way it is accumulated (Logger.With, or           *)
(* withFields directly) and a log call; the step accumulates the list and  *)
(* logs the call through the receiver and through the handler returned.    *)
(***************************************************************************)
\* kvs that build the receiver: none, two segments, three segments.
ReceiverLists ==
    << <<>>,
       <<GoString("a"), GoInt(1), GoString("c"), GoValuer(Caller), GoString("b"), GoInt(2)>>,
       <<GoString("a"), GoInt(1), GoString("c"), GoValuer(Caller), GoString("b"), GoInt(2),
         GoString("ts"), GoValuer(Timestamp), GoString("z"), GoInt(3)>> >>

\* kvs with only empty groups: none, one, two, one whose only child is an
\* empty group.
NoopLists ==
    << <<>>,
       <<GoField(GroupField("e", <<>>))>>,
       <<GoField(GroupField("e", <<>>)), GoField(GroupField("f", <<>>))>>,
       <<GoField(GroupField("e", <<GoField(GroupField("f", <<>>))>>))>> >>

NoopLogs ==
    << LogInput(LevelInfo, "hello", <<>>),
       LogInput(LevelWarn, "", <<GoString("x"), GoInt(3), GoString("c"), GoValuer(Caller)>>),
       LogInput(LevelError, "hello world",
                <<GoField(GroupField("g", <<GoString("a"), GoInt(2)>>)), GoString("dangling")>>) >>

\* Logger.With(kvs...) on a Logger whose handler is r0: the handler of the
\* Logger returned.
LoggerWith(r0, kvs) ==
    IF Len(kvs) = 0 THEN r0 ELSE builtHandler(DerivedOf(r0, kvs))

\* The handler after the list is accumulated on r0.
NoopHandler(via, r0, kvs) ==
    IF via = "Logger.With" THEN LoggerWith(r0, kvs) ELSE builtHandler(DerivedOf(r0, kvs))

\* The line of the log call `in` through the handler r.
NoopLine(r, ctx, now, in) ==
    handleFormat(r.h, r.heap, ctx, now, in.level, in.msg, in.kvs).buf

InitNoop ==
    \E json \in BOOLEAN, name \in Names, rep \in Replacers, recv \in DOMAIN ReceiverLists,
       noop \in DOMAIN NoopLists, via \in {"Logger.With", "withFields"},
       in \in DOMAIN NoopLogs, ctx \in Contexts, now \in 0..MaxClock :
        InitProbe(<<>>, "w1",
                  [op |-> "noop", json |-> json, name |-> name, rep |-> rep, recv |-> recv,
                   noop |-> noop, via |-> via, in |-> in, ctx |-> ctx, now |-> now])

\* The inputs p, the receiver r0 and the handler r1 returned.
NoopResult(p, r0, r1) ==
    [op |-> "nooped", recv |-> p.recv, noop |-> p.noop, via |-> p.via, json |-> p.json,
     h0 |-> r0.h, h1 |-> r1.h,
     segs0 |-> SegmentsOf(r0), segs1 |-> SegmentsOf(r1),
     line0 |-> NoopLine(r0, p.ctx, p.now, NoopLogs[p.in]),
     line1 |-> NoopLine(r1, p.ctx, p.now, NoopLogs[p.in])]

\* The step on the receiver r0.
NoopOn(p, r0) == NoopResult(p, r0, NoopHandler(p.via, r0, NoopLists[p.noop]))

AccumulateNothing ==
    /\ probe.op = "noop"
    /\ probe' = NoopOn(probe,
                       LoggerWith(newCommonHandler(<<>>, probe.json, probe.name, probe.rep, 1),
                                  ReceiverLists[probe.recv]))
    /\ UNCHANGED <<handlers, heap, loggers, mutexes, out, writing, clock, pc, loc, done, hist>>

NextNoop == AccumulateNothing

SpecNoop == InitNoop /\ [][NextNoop]_vars

\* C15: accumulating a Field list of empty groups only, or no Field, is a
\* no-op: the handler returned has the fields of the receiver, its segment
\* list is the receiver's, and it writes the line the receiver writes.
C15_NoOp ==
    probe.op = "nooped" =>
        /\ probe.h1 = probe.h0
        /\ probe.segs1 = probe.segs0
        /\ probe.line1 = probe.line0

\* C15 witness: withFields with two empty groups on a receiver of three
\* segments, whose line carries the accumulated attributes.
C15_Witness ==
    /\ probe.op = "nooped"
    /\ probe.via = "withFields" /\ probe.noop = 3 /\ probe.recv = 3
    /\ Len(probe.segs1) = 3
    /\ \E j \in DOMAIN probe.line1 : probe.line1[j] = "z"

(***************************************************************************)
(* SpecCoerce: kvsToFieldSlice on every argument list of at most MaxKvs    *)
(* elements drawn from a string, a second string, an int, a Field, nil and *)
(* a Valuer.                                                               *)
(***************************************************************************)
CoerceElems ==
    { GoString("k"), GoString("v"), GoInt(1), GoField(IntField("f", 2)), GoNil,
      GoValuer(Timestamp) }

CoerceLists == UNION { [1..n -> CoerceElems] : n \in 0..MaxKvs }

\* The Field sequence the alternating list kvs stands for, element i
\* onwards.
RECURSIVE CoercedFrom(_, _)
CoercedFrom(kvs, i) ==
    IF i > Len(kvs) THEN <<>>
    ELSE IF kvs[i].gt = "Field" THEN <<kvs[i].f>> \o CoercedFrom(kvs, i + 1)
    ELSE IF kvs[i].gt = "string" /\ i < Len(kvs)
    THEN <<MkField(kvs[i].s, AnyValue(kvs[i + 1]))>> \o CoercedFrom(kvs, i + 2)
    ELSE IF kvs[i].gt = "string" THEN <<MkField(badKey, StringValue(kvs[i].s))>>
    ELSE <<MkField(badKey, AnyValue(kvs[i]))>> \o CoercedFrom(kvs, i + 1)

InitCoerce ==
    \E kvs \in CoerceLists : InitProbe(<<>>, "w1", [op |-> "coerce", kvs |-> kvs])

Coerce ==
    /\ probe.op = "coerce"
    /\ probe' = [op |-> "coerced", kvs |-> probe.kvs, fields |-> kvsToFieldSlice(probe.kvs)]
    /\ UNCHANGED <<handlers, heap, loggers, mutexes, out, writing, clock, pc, loc, done, hist>>

NextCoerce == Coerce

SpecCoerce == InitCoerce /\ [][NextCoerce]_vars

\* C16: the coercion of an alternating list is total and goes left to
\* right: a Field is taken as it is, a string with an element after it is
\* the key of that element, a final string is the value of <BAD_KEY>, any
\* other element is the value of <BAD_KEY>; the result is a sequence of
\* Fields, at most one per element and at least one per two elements.
C16_Coercion ==
    probe.op = "coerced" =>
        /\ probe.fields = CoercedFrom(probe.kvs, 1)
        /\ Len(probe.fields) <= Len(probe.kvs)
        /\ 2 * Len(probe.fields) >= Len(probe.kvs)
        /\ \A i \in DOMAIN probe.fields :
              DOMAIN probe.fields[i] = {"Key", "Value"}

\* C16 witness: a pair whose value is an int, then a final string without
\* value, which becomes the value of <BAD_KEY>.
C16_Witness ==
    /\ probe.op = "coerced"
    /\ probe.kvs = <<GoString("k"), GoInt(1), GoString("v")>>
    /\ probe.fields = <<MkField("k", Int64Value(1)), MkField(badKey, StringValue("v"))>>

(***************************************************************************)
(* SpecEmpty: Field.isEmpty and the elision of empty Fields.  The inputs   *)
(* are a key (empty or not), a value (the absence value, typed zeros,      *)
(* non-zero values), the handler format, the way the Field reaches the     *)
(* handler and the attributes around it; the step evaluates isEmpty and    *)
(* logs one call with the Field and one without it.                        *)
(***************************************************************************)
EmptyKeys == {"", "k"}

EmptyVals ==
    << ZeroValue,
       Int64Value(0), Uint64Value(0), BoolValue(FALSE), Float64Value("0"), DurationValue(0),
       Int64Value(1), Uint64Value(1), BoolValue(TRUE), Float64Value("1.5"), DurationValue(1),
       StringValue(""), StringValue("v"), ErrorValue("e") >>

\* The Field has an empty key and the absence value: kind Any holding nil.
IsAbsent(key, v) == key = "" /\ v.kind = KindAny /\ v.any = NilAny

InitEmpty ==
    \E json \in BOOLEAN, key \in EmptyKeys, i \in DOMAIN EmptyVals, place \in {"With", "Log"},
       before \in RoundTripBefore, after \in RoundTripAfter :
        InitProbe(<<>>, "w1",
                  [op |-> "empty", json |-> json, key |-> key, i |-> i, place |-> place,
                   before |-> before, after |-> after])

CheckEmpty ==
    /\ probe.op = "empty"
    /\ probe' = [op |-> "emptied", json |-> probe.json, key |-> probe.key, i |-> probe.i,
                 place |-> probe.place,
                 empty |-> isEmpty(MkField(probe.key, EmptyVals[probe.i])),
                 line |-> Rendered(probe.json, "nil", probe.place,
                                   probe.before
                                       \o <<GoField(MkField(probe.key, EmptyVals[probe.i]))>>
                                       \o probe.after).buf,
                 without |-> Rendered(probe.json, "nil", probe.place,
                                      probe.before \o probe.after).buf]
    /\ UNCHANGED <<handlers, heap, loggers, mutexes, out, writing, clock, pc, loc, done, hist>>

NextEmpty == CheckEmpty

SpecEmpty == InitEmpty /\ [][NextEmpty]_vars

\* C17: a Field is empty, and left out of the line, exactly when its key is
\* empty and its value is kind Any holding nil; a typed zero under an empty
\* key is not empty and is written.
C17_EmptyIff ==
    probe.op = "emptied" =>
        /\ probe.empty <=> IsAbsent(probe.key, EmptyVals[probe.i])
        /\ (probe.line = probe.without) <=> IsAbsent(probe.key, EmptyVals[probe.i])

(***************************************************************************)
(* Value.Equal: "true", "false", or "panic" when Equal panics.             *)
(***************************************************************************)
RECURSIVE Equal(_, _)
RECURSIVE EqualFrom(_, _, _)

\* slices.EqualFunc(v.group(), w.group(), Field.Equal), element i onwards:
\* it stops at the first pair that differs.
EqualFrom(as, bs, i) ==
    IF i > Len(as) THEN "true"
    ELSE IF as[i].Key # bs[i].Key THEN "false"
    ELSE IF Equal(as[i].Value, bs[i].Value) = "true" THEN EqualFrom(as, bs, i + 1)
    ELSE Equal(as[i].Value, bs[i].Value)

Equal(v, w) ==
    IF v.kind # w.kind THEN "false"
    ELSE CASE v.kind \in {KindInt64, KindUint64, KindBool, KindDuration} ->
                 IF v.num = w.num THEN "true" ELSE "false"
           [] v.kind = KindString -> IF v.any.s = w.any.s THEN "true" ELSE "false"
           [] v.kind = KindFloat64 ->
                 \* v.float() == w.float(): NaN differs from itself
                 IF v.num = w.num /\ Float64frombits(v.num) # "NaN" THEN "true" ELSE "false"
           [] v.kind = KindTime -> IF v.num = w.num THEN "true" ELSE "false"
           [] v.kind = KindAny -> IF v.any = w.any THEN "true" ELSE "false"
           [] v.kind = KindValuer -> "false"
           [] v.kind = KindGroup ->
                 IF Len(v.group) # Len(w.group) THEN "false"
                 ELSE EqualFrom(v.group, w.group, 1)
           [] OTHER -> "panic"

(***************************************************************************)
(* SpecAny: AnyValue against the explicit constructors, for values of      *)
(* every supported type.                                                   *)
(***************************************************************************)
SignedTypes == {"int", "int8", "int16", "int32", "int64"}
UnsignedTypes == {"uint", "uint8", "uint16", "uint32", "uint64", "uintptr"}
FloatTypes == {"float64", "float32"}

\* Field lists: plain, with an empty group to drop, with a float that is not
\* a number, with a Valuer, with a Source.
AnyFieldLists ==
    { <<IntField("i", 3)>>,
      <<IntField("i", 3), MkField("e", GroupValue(<<>>)), StringField("s", "v")>>,
      <<MkField("f", Float64Value("NaN"))>>,
      <<MkField("ts", ValuerValue(Timestamp))>>,
      <<MkField("src", SourceValue("f.go", 10))>> }

AnyValues ==
    { Int64Value(4), StringValue("s"), BoolValue(TRUE), Uint64Value(6), DurationValue(3),
      TimeValue(5), ZeroValue, GroupValue(<<IntField("i", 3)>>),
      ValuerValue(Timestamp), SourceValue("f.go", 10) }

AnyInputs ==
    {GoNum(t, n) : t \in SignedTypes, n \in {-3, 0, 1, 11}}
        \cup {GoNum(t, n) : t \in UnsignedTypes, n \in {0, 2, 7}}
        \cup {GoFloat(t, f) : t \in FloatTypes, f \in Floats}
        \cup {GoNum("bool", n) : n \in {0, 1}}
        \cup {GoString(str) : str \in {"", "s", "a b"}}
        \cup {GoNum("Duration", n) : n \in {0, 3}}
        \cup {GoNum("Time", n) : n \in {0, 5}}
        \cup {GoFields(as) : as \in AnyFieldLists}
        \cup {GoValue(v) : v \in AnyValues}

\* The Value the explicit constructor for the type of x builds from x.
Explicit(x) ==
    CASE x.gt \in SignedTypes   -> Int64Value(x.n)
      [] x.gt \in UnsignedTypes -> Uint64Value(x.n)
      [] x.gt \in FloatTypes    -> Float64Value(x.s)
      [] x.gt = "bool"          -> BoolValue(x.n = 1)
      [] x.gt = "string"        -> StringValue(x.s)
      [] x.gt = "Duration"      -> DurationValue(x.n)
      [] x.gt = "Time"          -> TimeValue(x.n)
      [] x.gt = "[]Field"       -> GroupValue(x.f.Value.group)
      [] OTHER                  -> x.f.Value

InitAny == \E x \in AnyInputs : InitProbe(<<>>, "w1", [op |-> "any", x |-> x])

ConvertAny ==
    /\ probe.op = "any"
    /\ probe' = [op |-> "converted", x |-> probe.x, got |-> AnyValue(probe.x),
                 want |-> Explicit(probe.x),
                 equal |-> Equal(AnyValue(probe.x), Explicit(probe.x))]
    /\ UNCHANGED <<handlers, heap, loggers, mutexes, out, writing, clock, pc, loc, done, hist>>

NextAny == ConvertAny

SpecAny == InitAny /\ [][NextAny]_vars

\* C18: for every value x of a supported type, AnyValue(x) has the kind of
\* the Value the explicit constructor builds, and Equal reports the two
\* equal; every signed width gives Int64, every unsigned width Uint64.
C18_AnyValue ==
    probe.op = "converted" =>
        /\ probe.got.kind = probe.want.kind
        /\ probe.equal = "true"
        /\ probe.x.gt \in SignedTypes => probe.got.kind = KindInt64
        /\ probe.x.gt \in UnsignedTypes => probe.got.kind = KindUint64

(***************************************************************************)
(* SpecString: Value.String on Values of every kind.                       *)
(***************************************************************************)
\* Value.append: [panics, str]; the switch has no case for KindSource and
\* panics with "bad kind" in its default.
append(v) ==
    IF v.kind = KindSource THEN [panics |-> TRUE, str |-> "bad kind: Source"]
    ELSE [panics |-> FALSE, str |-> ValueText(v)]

\* Value.String: [panics, str].
String(v) ==
    IF v.kind = KindString THEN [panics |-> FALSE, str |-> v.any.s] ELSE append(v)

StringInputs ==
    {StringValue(str) : str \in {"", "foo", "a b", "hello world"}}
        \cup {Int64Value(n) : n \in {-3, 0, 1, 2, 11}}
        \cup {Uint64Value(n) : n \in {0, 1, 2, 7}}
        \cup {Float64Value(f) : f \in Floats}
        \cup {BoolValue(b) : b \in BOOLEAN}
        \cup {DurationValue(n) : n \in {0, 3}}
        \cup {TimeValue(n) : n \in {0, 5}}
        \cup {GroupValue(as) : as \in AnyFieldLists \cup {<<>>}}
        \cup {GroupValue(<<IntField("a", 1), MkField("b", v)>>) : v \in AnyValues}
        \cup {ValuerValue(fn) : fn \in {Timestamp, Caller, panickingValuer, nilValuer,
                                        replacedValuer(1)}}
        \cup {SourceValue("f.go", 10), SourceValue("", 0), MkValue(KindSource, 0, NilSource, <<>>)}
        \cup {ZeroValue, ErrorValue("e"), MkValue(KindAny, 0, NilError, <<>>),
              MkValue(KindAny, 0, NilMarshaler, <<>>),
              MkValue(KindAny, 0, panickingMarshaler("boom"), <<>>)}
        \cup AnyValues

InitString == \E v \in StringInputs : InitProbe(<<>>, "w1", [op |-> "string", v |-> v])

CallString ==
    /\ probe.op = "string"
    /\ probe' = [op |-> "stringed", v |-> probe.v, r |-> String(probe.v)]
    /\ UNCHANGED <<handlers, heap, loggers, mutexes, out, writing, clock, pc, loc, done, hist>>

NextString == CallString

SpecString == InitString /\ [][NextString]_vars

\* C19: Value.String returns a string and does not panic, for a Value of
\* every kind.
C19_StringTotal == probe.op = "stringed" => ~probe.r.panics

(***************************************************************************)
(* SpecGroupValue: GroupValue, Group and AnyValue of a Field list, on      *)
(* every list of at most MaxChildren children that are literals, empty     *)
(* groups, and groups built the same way one and two levels down.          *)
(***************************************************************************)
GroupChildren ==
    { IntField("a", 1), StringField("s", "v"),
      MkField("e", GroupValue(<<>>)),
      MkField("g", GroupValue(<<IntField("b", 2)>>)),
      MkField("n", GroupValue(<<MkField("e", GroupValue(<<>>))>>)),
      MkField("m", GroupValue(<<IntField("b", 2),
                                MkField("n", GroupValue(<<MkField("e", GroupValue(<<>>))>>)),
                                StringField("s", "v")>>)) }

GroupLists == UNION { [1..n -> GroupChildren] : n \in 0..MaxChildren }

GroupBuilders == {"GroupValue", "Group", "AnyValue"}

\* The Fields as the kvs of Group.
RECURSIVE AsKvs(_)
AsKvs(as) == IF Len(as) = 0 THEN <<>> ELSE <<GoField(as[1])>> \o AsKvs(Tail(as))

\* The group Value the builder makes of the children as.
BuiltGroup(via, as) ==
    CASE via = "Group"    -> GroupField("k", AsKvs(as)).Value
      [] via = "AnyValue" -> AnyValue(GoFields(as))
      [] OTHER            -> GroupValue(as)

\* A group without children.
HasNoChild(a) == a.Value.kind = KindGroup /\ Len(a.Value.group) = 0

HasChild(a) == ~HasNoChild(a)

\* No group below v is without children.
RECURSIVE NoEmptyGroupIn(_)
NoEmptyGroupIn(v) ==
    \A i \in DOMAIN v.group :
        v.group[i].Value.kind = KindGroup =>
            /\ Len(v.group[i].Value.group) > 0
            /\ NoEmptyGroupIn(v.group[i].Value)

InitGroupValue ==
    \E via \in GroupBuilders, as \in GroupLists :
        InitProbe(<<>>, "w1", [op |-> "build", via |-> via, as |-> as])

BuildGroup ==
    /\ probe.op = "build"
    /\ probe' = [op |-> "built", via |-> probe.via, as |-> probe.as,
                 v |-> BuiltGroup(probe.via, probe.as)]
    /\ UNCHANGED <<handlers, heap, loggers, mutexes, out, writing, clock, pc, loc, done, hist>>

NextGroupValue == BuildGroup

SpecGroupValue == InitGroupValue /\ [][NextGroupValue]_vars

\* C20: a group built by GroupValue, Group or AnyValue of a Field list has
\* no group without children below it at any depth, keeps the other
\* children in their order, and is empty exactly when its stored length
\* is 0.
C20_NoEmptyGroups ==
    probe.op = "built" =>
        /\ probe.v.kind = KindGroup
        /\ NoEmptyGroupIn(probe.v)
        /\ probe.v.group = SelectSeq(probe.as, HasChild)
        /\ probe.v.num = Len(probe.v.group)
        /\ isEmptyGroup(probe.v) <=> Len(probe.v.group) = 0

\* C20 witness: GroupValue of a literal, an empty group and a group, which
\* keeps the literal and the group.
C20_Witness ==
    /\ probe.op = "built"
    /\ probe.via = "GroupValue"
    /\ Len(probe.as) = 3 /\ probe.as[1].Key = "a" /\ probe.as[2].Key = "e"
    /\ probe.as[3].Key = "m"
    /\ Len(probe.v.group) = 2
    /\ probe.v.group[2].Key = "m" /\ Len(probe.v.group[2].Value.group) = 2

(***************************************************************************)
(* SpecLevel: Level.String and ParseLevel.  A level text is the sequence   *)
(* of its characters, so that ParseLevel finds the sign, cuts the name and *)
(* reads the digits as the code does.                                      *)
(***************************************************************************)
DigitChars == <<"0", "1", "2", "3", "4", "5", "6", "7", "8", "9">>

\* The decimal digits of n >= 0.
RECURSIVE Digits(_)
Digits(n) ==
    IF n < 10 THEN <<DigitChars[n + 1]>>
    ELSE Digits(n \div 10) \o <<DigitChars[(n % 10) + 1]>>

\* The characters of a level name.
NameChars(base) ==
    CASE base = "DEBUG" -> <<"D", "E", "B", "U", "G">>
      [] base = "INFO"  -> <<"I", "N", "F", "O">>
      [] base = "WARN"  -> <<"W", "A", "R", "N">>
      [] base = "ERROR" -> <<"E", "R", "R", "O", "R">>
      [] OTHER          -> <<"F", "A", "T", "A", "L">>

\* fmt.Sprintf("%s%+d", base, val), and the bare name for val = 0, as
\* characters.
LevelStrChars(base, val) ==
    IF val = 0 THEN NameChars(base)
    ELSE IF val > 0 THEN NameChars(base) \o <<"+">> \o Digits(val)
    ELSE NameChars(base) \o <<"-">> \o Digits(-val)

\* Level.String, as characters.
LevelChars(l) ==
    CASE l < LevelInfo  -> LevelStrChars("DEBUG", l - LevelDebug)
      [] l >= LevelInfo /\ l < LevelWarn   -> LevelStrChars("INFO", l - LevelInfo)
      [] l >= LevelWarn /\ l < LevelError  -> LevelStrChars("WARN", l - LevelWarn)
      [] l >= LevelError /\ l < LevelFatal -> LevelStrChars("ERROR", l - LevelError)
      [] OTHER -> LevelStrChars("FATAL", l - LevelFatal)

\* strings.IndexAny(s, "+-"), 1-based; 0 when there is none.
RECURSIVE IndexAnySign(_, _)
IndexAnySign(cs, i) ==
    IF i > Len(cs) THEN 0
    ELSE IF cs[i] \in {"+", "-"} THEN i
    ELSE IndexAnySign(cs, i + 1)

\* The value of a digit character; -1 for any other character.
DigitValue(c) ==
    IF \E d \in DOMAIN DigitChars : DigitChars[d] = c
    THEN (CHOOSE d \in DOMAIN DigitChars : DigitChars[d] = c) - 1
    ELSE -1

\* The number the digits cs[i..] stand for after acc; -1 on a character
\* that is no digit.
RECURSIVE AtoiFrom(_, _, _)
AtoiFrom(cs, i, acc) ==
    IF i > Len(cs) THEN acc
    ELSE IF DigitValue(cs[i]) < 0 THEN -1
    ELSE AtoiFrom(cs, i + 1, 10 * acc + DigitValue(cs[i]))

\* The magnitude m read after the sign of cs, as strconv.Atoi returns it:
\* 0 on a syntax error.
AtoiSigned(cs, m) ==
    IF m < 0 THEN 0 ELSE IF cs[1] = "-" THEN -m ELSE m

\* offset, _ = strconv.Atoi(s[i:]), for s[i:] that starts with a sign.
Atoi(cs) == IF Len(cs) < 2 THEN 0 ELSE AtoiSigned(cs, AtoiFrom(cs, 2, 0))

\* strings.ToUpper of one character of a level name.
ToUpperChar(c) ==
    CASE c = "d" -> "D" [] c = "e" -> "E" [] c = "b" -> "B" [] c = "u" -> "U"
      [] c = "g" -> "G" [] c = "i" -> "I" [] c = "n" -> "N" [] c = "f" -> "F"
      [] c = "o" -> "O" [] c = "w" -> "W" [] c = "a" -> "A" [] c = "r" -> "R"
      [] c = "t" -> "T" [] c = "l" -> "L" [] OTHER -> c

ToUpper(cs) == [i \in DOMAIN cs |-> ToUpperChar(cs[i])]

\* The switch of ParseLevel on the upper-case name.
NamedLevel(name) ==
    CASE name = NameChars("DEBUG") -> LevelDebug
      [] name = NameChars("INFO")  -> LevelInfo
      [] name = NameChars("WARN")  -> LevelWarn
      [] name = NameChars("ERROR") -> LevelError
      [] name = NameChars("FATAL") -> LevelFatal
      [] OTHER -> LevelInfo

\* ParseLevel of the text cs whose first sign is at i (0: no sign).
ParseLevelAt(cs, i) ==
    IF i = 0 THEN NamedLevel(ToUpper(cs))
    ELSE NamedLevel(ToUpper(SubSeq(cs, 1, i - 1))) + Atoi(SubSeq(cs, i, Len(cs)))

\* ParseLevel that reads the name and drops the offset.
ParseLevelNamed(cs) ==
    IF IndexAnySign(cs, 1) = 0 THEN NamedLevel(ToUpper(cs))
    ELSE NamedLevel(ToUpper(SubSeq(cs, 1, IndexAnySign(cs, 1) - 1)))

ParseLevel(cs) == ParseLevelAt(cs, IndexAnySign(cs, 1))

Levels == (LevelDebug - MaxOffset)..(LevelFatal + MaxOffset)

InitLevel == \E l \in Levels : InitProbe(<<>>, "w1", [op |-> "level", l |-> l])

RoundTripLevel ==
    /\ probe.op = "level"
    /\ probe' = [op |-> "parsed", l |-> probe.l, str |-> LevelChars(probe.l),
                 parsed |-> ParseLevel(LevelChars(probe.l))]
    /\ UNCHANGED <<handlers, heap, loggers, mutexes, out, writing, clock, pc, loc, done, hist>>

NextLevel == RoundTripLevel

SpecLevel == InitLevel /\ [][NextLevel]_vars

\* C21: ParseLevel(l.String()) is l for every level: the named ones, those
\* between two named ones, those below Debug and those above Fatal; the
\* text is the one the handlers write for the level.
C21_LevelRoundTrip ==
    probe.op = "parsed" =>
        /\ probe.parsed = probe.l
        /\ Bytes(probe.str) = LevelString(probe.l)

\* C21 witness: a level below Debug with a two-digit offset, written
\* DEBUG-13 and read back.
C21_Witness ==
    /\ probe.op = "parsed"
    /\ probe.l = LevelDebug - 13
    /\ probe.str = <<"D", "E", "B", "U", "G", "-", "1", "3">>
    /\ probe.parsed = -17

(***************************************************************************)
(* SpecMethods: one call of Log or of a convenience method, on a Logger    *)
(* at level Info whose destination accepts or refuses the Write, with      *)
(* ErrorHandler set or nil.  probe is the frame of the call: step is the   *)
(* statement it is at, ret the error Log returned, hooks the errors        *)
(* ErrorHandler received.                                                  *)
(***************************************************************************)
ErrKey == "err"

Methods == {"Log", "Debug", "Info", "Infof", "InfoS", "WarnS", "ErrorS", "Fatal", "Fatalf", "FatalS"}

\* The methods with an error parameter; the methods with key/values.
ErrMethods == {"ErrorS", "FatalS"}
KvsMethods == {"Log", "InfoS", "WarnS", "ErrorS", "FatalS"}
FatalMethods == {"Fatal", "Fatalf", "FatalS"}

MethodLevel(method) ==
    CASE method = "Debug" -> LevelDebug
      [] method \in {"Log", "Info", "Infof", "InfoS"} -> LevelInfo
      [] method = "WarnS" -> LevelWarn
      [] method = "ErrorS" -> LevelError
      [] OTHER -> LevelFatal

\* The key/values handed to Log: ErrorS and FatalS put ErrKey, err.Error()
\* first when err is not nil.
MethodKvs(p) ==
    IF p.method \in ErrMethods /\ p.err # "nil"
    THEN <<GoString(ErrKey), GoString(p.err)>> \o p.kvs
    ELSE p.kvs

\* The call reaches os.Exit(1): Fatal and Fatalf always, FatalS on the
\* path of a non-nil err with key/values; its other two paths return.
ReachesExit(p) ==
    \/ p.method \in {"Fatal", "Fatalf"}
    \/ p.method = "FatalS" /\ p.err # "nil" /\ Len(p.kvs) > 0

InitMethods ==
    \E method \in Methods, err \in {"nil", "e"}, msg \in {"", "hello"},
       kvs \in {<<>>, <<GoString("k"), GoInt(1)>>}, dest \in {"w1", "discard"},
       fails \in BOOLEAN, hook \in {"set", "nil"} :
        /\ method \notin ErrMethods => err = "nil"
        /\ method \notin KvsMethods => kvs = <<>>
        /\ InitProbe(<<RootOpts(FALSE, "", "nil")>>, dest,
                     [op |-> "call", method |-> method, err |-> err, msg |-> msg,
                      kvs |-> kvs, fails |-> fails, hook |-> hook, step |-> "log",
                      ret |-> "nil", invoked |-> FALSE, writes |-> 0, logs |-> 0,
                      hooks |-> <<>>])

\* The frame after l.Log(...) gave r (what LogContextTo did before the
\* Write): the Write, when it is made, returns the error of the destination.
MethodLogged(p, r) ==
    [p EXCEPT !.step = IF p.method = "Log" THEN "returned" ELSE "hook",
              !.ret = IF r.returns THEN r.err
                      ELSE IF p.fails THEN "write failed" ELSE "nil",
              !.invoked = r.invoked,
              !.writes = IF r.returns THEN 0 ELSE 1,
              !.logs = p.logs + 1]

\* The destination after that call.
MethodOut(p, r) ==
    IF r.returns \/ p.fails THEN out
    ELSE [out EXCEPT !["w1"] = Append(@, [g |-> "g1", bytes |-> r.s.buf, last |-> TRUE])]

\* err := l.Log(level, msg, kvs...)
MethodLog ==
    /\ probe.op = "call" /\ probe.step = "log"
    /\ probe' = MethodLogged(probe,
                    logContextTo(1, loggers[1].ctx, loggers[1].w, MethodLevel(probe.method),
                                 probe.msg, MethodKvs(probe)))
    /\ out' = MethodOut(probe,
                    logContextTo(1, loggers[1].ctx, loggers[1].w, MethodLevel(probe.method),
                                 probe.msg, MethodKvs(probe)))
    /\ UNCHANGED <<handlers, heap, loggers, mutexes, writing, clock, pc, loc, done, hist>>

\* errorHandler that calls ErrorHandler for a nil error too.
errorHandlerAlways(p) ==
    IF p.hook # "nil" THEN Append(p.hooks, p.ret) ELSE p.hooks

\* errorHandler(err): the errors ErrorHandler has received after it.
errorHandler(p) ==
    IF p.ret = "nil" THEN p.hooks
    ELSE IF p.hook # "nil" THEN Append(p.hooks, p.ret)
    ELSE p.hooks

\* errorHandler(err) in a convenience method.
MethodErrorHandler ==
    /\ probe.op = "call" /\ probe.step = "hook"
    /\ probe' = [probe EXCEPT !.step = "end", !.hooks = errorHandler(probe)]
    /\ UNCHANGED <<handlers, heap, loggers, mutexes, out, writing, clock, pc, loc, done, hist>>

\* os.Exit(1)
MethodExit ==
    /\ probe.op = "call" /\ probe.step = "end" /\ ReachesExit(probe)
    /\ probe' = [probe EXCEPT !.step = "exited"]
    /\ UNCHANGED <<handlers, heap, loggers, mutexes, out, writing, clock, pc, loc, done, hist>>

\* The method returns to its caller.
MethodReturn ==
    /\ probe.op = "call" /\ probe.step = "end" /\ ~ReachesExit(probe)
    /\ probe' = [probe EXCEPT !.step = "returned"]
    /\ UNCHANGED <<handlers, heap, loggers, mutexes, out, writing, clock, pc, loc, done, hist>>

NextMethods == MethodLog \/ MethodErrorHandler \/ MethodExit \/ MethodReturn

SpecMethods == InitMethods /\ [][NextMethods]_vars

\* C22: no call of Fatal, Fatalf or FatalS returns to its caller, and the
\* process exits only after the call made its Log call.
C22_FatalTerminates ==
    (probe.op = "call" /\ probe.method \in FatalMethods) =>
        /\ probe.step # "returned"
        /\ probe.step = "exited" => probe.logs = 1

\* The call is past its Log call; past its errorHandler call.
PastLog == probe.op = "call" /\ probe.step # "log"
PastHook == probe.op = "call" /\ probe.step \in {"end", "exited", "returned"}

\* C23: Log returns the error of the destination's Write to its caller;
\* a convenience method passes the error Log returned to ErrorHandler
\* exactly once, and ErrorHandler receives nothing when the Write
\* succeeded, when the call was skipped and when ErrorHandler is nil.
C23_WriteError ==
    /\ PastLog =>
          /\ (probe.writes = 1 /\ probe.fails) => probe.ret = "write failed"
          /\ (probe.writes = 1 /\ ~probe.fails) => probe.ret = "nil"
          /\ ~probe.invoked => (probe.ret = "nil" /\ probe.writes = 0)
    /\ (PastLog /\ probe.method = "Log") => (probe.step = "returned" /\ probe.hooks = <<>>)
    /\ (PastHook /\ probe.method # "Log") =>
          /\ (probe.ret # "nil" /\ probe.hook = "set") => probe.hooks = <<probe.ret>>
          /\ (probe.ret = "nil" \/ probe.hook = "nil") => probe.hooks = <<>>

\* C23 witness: InfoS with a message and key/values on a destination that
\* refuses the Write has returned, and ErrorHandler received the error once.
C23_Witness ==
    /\ probe.op = "call" /\ probe.method = "InfoS" /\ probe.step = "returned"
    /\ probe.msg = "hello" /\ Len(probe.kvs) > 0
    /\ probe.fails /\ probe.writes = 1 /\ probe.ret = "write failed"
    /\ probe.hooks = <<"write failed">>

(***************************************************************************)
(* SpecJSON: the commas and braces of a JSON record.  The inputs are a     *)
(* JSON handler (name, Replacer), a group (its key and its children:       *)
(* deferred Valuers first, last or alone, children the Replacer elides,    *)
(* empty Fields, a group inside), the way it reaches the handler           *)
(* (accumulated through With or passed to the log call), the attributes    *)
(* around it and the message; the step logs one call.                      *)
(***************************************************************************)
\* The children of the group.
JSONChildren ==
    [valuer      |-> <<GoString("k"), GoValuer(Caller)>>,
     valuerFirst |-> <<GoString("k"), GoValuer(Caller), GoString("n"), GoInt(1)>>,
     valuerLast  |-> <<GoString("n"), GoInt(1), GoString("k"), GoValuer(Timestamp)>>,
     valuers     |-> <<GoString("k"), GoValuer(Caller), GoString("t"), GoValuer(Timestamp)>>,
     elidedFirst |-> <<GoString("pw"), GoString("v"), GoString("k"), GoValuer(Caller)>>,
     elidedLast  |-> <<GoString("k"), GoValuer(Caller), GoString("pw"), GoString("v")>>,
     emptyFirst  |-> <<GoField(EmptyField), GoString("k"), GoValuer(Caller)>>,
     inner       |-> <<GoField(GroupField("h", <<GoString("k"), GoValuer(Caller)>>)),
                       GoString("n"), GoInt(1)>>,
     nilValuer   |-> <<GoString("k"), GoValuer(nilValuer), GoString("n"), GoInt(1)>>,
     literal     |-> <<GoString("n"), GoInt(1)>>,
     none        |-> <<>>]

\* The attribute list: the group between the attributes before and after.
JSONKvs(key, shape, before, after) ==
    before \o <<GoField(GroupField(key, JSONChildren[shape]))>> \o after

\* The handleState handle leaves for Log(LevelInfo, msg, ...) through
\* NewJSON(w, opts), the list kvs accumulated through With or passed to the
\* call.
JSONRecord(name, rep, place, msg, kvs) ==
    IF place = "With"
    THEN handleFormat(DerivedOf(newCommonHandler(<<>>, TRUE, name, rep, 1), kvs).h,
                      DerivedOf(newCommonHandler(<<>>, TRUE, name, rep, 1), kvs).heap,
                      0, 1, LevelInfo, msg, <<GoString("x"), GoInt(3)>>)
    ELSE handleFormat(newCommonHandler(<<>>, TRUE, name, rep, 1).h,
                      newCommonHandler(<<>>, TRUE, name, rep, 1).heap,
                      0, 1, LevelInfo, msg, kvs)

\* The tokens from i on continue a record that is `depth` braces deep and
\* whose last token was of the class prev (start, open, comma, key, colon,
\* member, end): a brace opens the record or follows a colon, a member
\* (a key, its colon and a value or a braced list) follows an opening brace
\* or a comma, a comma follows a member, a closing brace follows a member
\* or its opening brace, and the newline follows the last closing brace.
RECURSIVE WellFormedFrom(_, _, _, _)
WellFormedFrom(toks, i, depth, prev) ==
    IF i > Len(toks) THEN prev = "end"
    ELSE CASE toks[i] = "{" ->
                /\ prev \in {"start", "colon"}
                /\ WellFormedFrom(toks, i + 1, depth + 1, "open")
           [] toks[i] = "}" ->
                /\ prev \in {"open", "member", "colon"}
                /\ depth > 0
                /\ WellFormedFrom(toks, i + 1, depth - 1, "member")
           [] toks[i] = "," ->
                /\ prev \in {"member", "colon"}
                /\ depth > 0
                /\ WellFormedFrom(toks, i + 1, depth, "comma")
           [] toks[i] = ":" ->
                /\ prev = "key"
                /\ WellFormedFrom(toks, i + 1, depth, "colon")
           [] toks[i] = "\n" ->
                /\ prev = "member"
                /\ depth = 0
                /\ WellFormedFrom(toks, i + 1, depth, "end")
           [] OTHER ->
                IF i < Len(toks) /\ toks[i + 1] = ":"
                THEN /\ prev \in {"open", "comma"}
                     /\ WellFormedFrom(toks, i + 1, depth, "key")
                ELSE /\ prev = "colon"
                     /\ WellFormedFrom(toks, i + 1, depth, "member")

WellFormed(toks) == WellFormedFrom(toks, 1, 0, "start")

InitJSON ==
    \E name \in Names, rep \in Replacers, key \in {"g", ""},
       shape \in DOMAIN JSONChildren, place \in {"With", "Log"},
       msg \in {"hello", ""}, before \in RoundTripBefore, after \in RoundTripAfter :
        InitProbe(<<>>, "w1",
                  [op |-> "json", name |-> name, rep |-> rep, key |-> key,
                   shape |-> shape, place |-> place, msg |-> msg,
                   before |-> before, after |-> after])

\* The inputs p with the state s of the call.
JSONResult(p, s) ==
    [op |-> "json-ed", name |-> p.name, rep |-> p.rep, key |-> p.key,
     shape |-> p.shape, place |-> p.place, msg |-> p.msg,
     before |-> p.before, after |-> p.after,
     line |-> s.buf, panicked |-> s.panicked]

EncodeJSON ==
    /\ probe.op = "json"
    /\ probe' = JSONResult(probe,
                    JSONRecord(probe.name, probe.rep, probe.place, probe.msg,
                               JSONKvs(probe.key, probe.shape, probe.before, probe.after)))
    /\ UNCHANGED <<handlers, heap, loggers, mutexes, out, writing, clock, pc, loc, done, hist>>

NextJSON == EncodeJSON

SpecJSON == InitJSON /\ [][NextJSON]_vars

ReplaceLists ==
    [flat        |-> <<GoString("k"), GoInt(1), GoString("pw"), GoString("v")>>,
     group       |-> <<GoField(GroupField("g",
                         <<GoString("a"), GoInt(1),
                           GoField(GroupField("h", <<GoString("b"), GoInt(2)>>)),
                           GoString("c"), GoInt(3)>>))>>,
     inline      |-> <<GoField(GroupField("", <<GoString("a"), GoInt(1)>>))>>,
     childless   |-> <<GoField(GroupField("g", <<>>)), GoString("k"), GoInt(1)>>,
     valuer      |-> <<GoField(GroupField("g", <<GoString("k"), GoValuer(Caller)>>))>>,
     valuerGroup |-> <<GoString("k"), GoValuer(replacedValuer(6))>>,
     innerGroup  |-> <<GoField(GroupField("g",
                         <<GoString("k"), GoValuer(replacedValuer(6))>>))>>]

\* The Replacer calls of withFields(fields) on the handler r.h.
withFieldsReps(r, fields) ==
    IF countEmptyGroups(fields) = Len(fields) THEN <<>>
    ELSE appendFields(newHandleState(clone(r.h), r.heap, attrSep(r.h.json)),
                      0, 0, fields, TRUE, FALSE).reps

\* [groups, key] of each Replacer call.
RECURSIVE ReplacerSaw(_)
ReplacerSaw(reps) ==
    IF Len(reps) = 0 THEN <<>>
    ELSE <<[groups |-> reps[1].groups, key |-> reps[1].field.Key]>>
         \o ReplacerSaw(Tail(reps))

\* The value the handler renders for v.
RenderedValue(v) == IF v.kind = KindValuer THEN Resolve(v, 0, 1).v ELSE v

\* The attributes of the list that are rendered as key and value, in
\* order, each with the names of the groups around it, outermost first; a
\* group has none of its own, and an inlined group adds no name.
RECURSIVE NonGroup(_, _)
NonGroup(fields, path) ==
    IF Len(fields) = 0 THEN <<>>
    ELSE (IF RenderedValue(fields[1].Value).kind = KindGroup
          THEN NonGroup(RenderedValue(fields[1].Value).group,
                        IF fields[1].Key # "" THEN Append(path, fields[1].Key)
                        ELSE path)
          ELSE <<[groups |-> path, key |-> fields[1].Key]>>)
         \o NonGroup(Tail(fields), path)

\* The built-in attributes of a call, as the Replacer sees them.
BuiltIn == <<[groups |-> <<>>, key |-> LevelKey], [groups |-> <<>>, key |-> MessageKey]>>

InitReplace ==
    \E json \in BOOLEAN, rep \in Replacers, list \in DOMAIN ReplaceLists,
       place \in {"With", "Log"}, before \in RoundTripBefore, after \in RoundTripAfter :
        InitProbe(<<>>, "w1",
                  [op |-> "replace", json |-> json, rep |-> rep, list |-> list,
                   place |-> place, before |-> before, after |-> after])

\* The inputs p, the attribute list kvs, the new handler r0 and the
\* accumulated list acc and per-call list own made of kvs.
ReplaceResult(p, r0, acc, own) ==
    [op |-> "replaced", json |-> p.json, rep |-> p.rep, list |-> p.list,
     place |-> p.place,
     accumulated |-> kvsToFieldSlice(acc), own |-> kvsToFieldSlice(own),
     withReps |-> withFieldsReps(r0, kvsToFieldSlice(acc)),
     logReps |-> RenderedBy(DerivedOf(r0, acc), own).reps,
     line |-> RenderedBy(DerivedOf(r0, acc), own).buf]

ReplaceOf(p, kvs) ==
    IF p.place = "With"
    THEN ReplaceResult(p, newCommonHandler(<<>>, p.json, "", p.rep, 1),
                       kvs, <<GoString("x"), GoInt(3)>>)
    ELSE ReplaceResult(p, newCommonHandler(<<>>, p.json, "", p.rep, 1),
                       <<GoString("y"), GoInt(4)>>, kvs)

CallReplacer ==
    /\ probe.op = "replace"
    /\ probe' = ReplaceOf(probe, probe.before \o ReplaceLists[probe.list] \o probe.after)
    /\ UNCHANGED <<handlers, heap, loggers, mutexes, out, writing, clock, pc, loc, done, hist>>

NextReplace == CallReplacer

SpecReplace == InitReplace /\ [][NextReplace]_vars

\* C25: with a Replacer, the Replacer is called exactly once for each
\* attribute that is rendered as key and value, accumulated (at With) or
\* per-call (at the log call, after the built-in level and message), in
\* order, with the names of the groups open around it, outermost first, and
\* never for a group.
C25_ReplacerOnce ==
    (probe.op = "replaced" /\ probe.rep # "nil") =>
        /\ ReplacerSaw(probe.withReps) = NonGroup(probe.accumulated, <<>>)
        /\ ReplacerSaw(probe.logReps) = BuiltIn \o NonGroup(probe.own, <<>>)

(***************************************************************************)
(* SpecMulti: MultiWriteCloser and its Write.  A writer is modelled by     *)
(* what its Write returns for p:                                           *)
(*   all    (len(p), nil)                                                  *)
(*   fail   (0, "e")                                                       *)
(*   part   (1, "e") for a non-empty p, (0, "e") for the empty one         *)
(*   short  (len(p) - 1, nil) for a non-empty p, (0, nil) for the empty    *)
(*   over   (len(p) + 1, nil)                                              *)
(* The inputs are a list of writers, how many of the first ones are        *)
(* passed wrapped in a MultiWriteCloser of their own, and len(p); the      *)
(* steps are the constructor, one iteration of the loop of Write per       *)
(* step, and the return after the loop.                                    *)
(***************************************************************************)
MaxWriters == 3
WriterKinds == {"all", "fail", "part", "short", "over"}
PLens == {0, 2}
ErrShortWrite == "short write"

\* w.Write(p) of a writer of the kind: [n, err].
WriterWrite(kind, len) ==
    CASE kind = "all"   -> [n |-> len, err |-> "nil"]
      [] kind = "fail"  -> [n |-> 0, err |-> "e"]
      [] kind = "part"  -> [n |-> IF len > 0 THEN 1 ELSE 0, err |-> "e"]
      [] kind = "short" -> [n |-> IF len > 0 THEN len - 1 ELSE 0, err |-> "nil"]
      [] kind = "over"  -> [n |-> len + 1, err |-> "nil"]

\* The arguments of MultiWriteCloser: the first `wrapped` writers as one
\* *multiWriteCloser, the others as they are.
MultiArgs(ws, wrapped) ==
    IF wrapped = 0 THEN [i \in 1..Len(ws) |-> [multi |-> FALSE, w |-> ws[i]]]
    ELSE <<[multi |-> TRUE, writers |-> SubSeq(ws, 1, wrapped)]>>
         \o [i \in 1..(Len(ws) - wrapped) |-> [multi |-> FALSE, w |-> ws[wrapped + i]]]

\* MultiWriteCloser: the writers of the new multiWriteCloser.
RECURSIVE MultiWriteCloser(_)
MultiWriteCloser(args) ==
    IF Len(args) = 0 THEN <<>>
    ELSE (IF args[1].multi THEN args[1].writers ELSE <<args[1].w>>)
         \o MultiWriteCloser(Tail(args))

\* One iteration of the loop of Write that ignores the byte count.
multiWriteAnyCount(p, r) ==
    IF r.err # "nil"
    THEN [p EXCEPT !.received = Append(@, p.i), !.n = r.n, !.err = r.err,
                   !.step = "returned"]
    ELSE [p EXCEPT !.received = Append(@, p.i), !.n = r.n, !.err = r.err,
                   !.i = @ + 1]

\* One iteration of the loop of Write, r being what w.Write(p) returned.
multiWrite(p, r) ==
    IF r.err # "nil"
    THEN [p EXCEPT !.received = Append(@, p.i), !.n = r.n, !.err = r.err,
                   !.step = "returned"]
    ELSE IF r.n # p.len
    THEN [p EXCEPT !.received = Append(@, p.i), !.n = r.n, !.err = ErrShortWrite,
                   !.step = "returned"]
    ELSE [p EXCEPT !.received = Append(@, p.i), !.n = r.n, !.err = r.err,
                   !.i = @ + 1]

InitMulti ==
    \E k \in 0..MaxWriters :
      \E ws \in [1..k -> WriterKinds], wrapped \in 0..k, len \in PLens :
        InitProbe(<<>>, "w1",
                  [op |-> "multi", step |-> "new", given |-> ws,
                   args |-> MultiArgs(ws, wrapped), len |-> len,
                   writers |-> <<>>, i |-> 1, received |-> <<>>,
                   n |-> 0, err |-> "nil"])

MultiNew ==
    /\ probe.op = "multi" /\ probe.step = "new"
    /\ probe' = [probe EXCEPT !.writers = MultiWriteCloser(probe.args),
                              !.step = "write"]
    /\ UNCHANGED <<handlers, heap, loggers, mutexes, out, writing, clock, pc, loc, done, hist>>

MultiWrite ==
    /\ probe.op = "multi" /\ probe.step = "write"
    /\ probe.i <= Len(probe.writers)
    /\ probe' = multiWrite(probe, WriterWrite(probe.writers[probe.i], probe.len))
    /\ UNCHANGED <<handlers, heap, loggers, mutexes, out, writing, clock, pc, loc, done, hist>>

MultiReturn ==
    /\ probe.op = "multi" /\ probe.step = "write"
    /\ probe.i > Len(probe.writers)
    /\ probe' = [probe EXCEPT !.n = probe.len, !.err = "nil", !.step = "returned"]
    /\ UNCHANGED <<handlers, heap, loggers, mutexes, out, writing, clock, pc, loc, done, hist>>

NextMulti == MultiNew \/ MultiWrite \/ MultiReturn

SpecMulti == InitMulti /\ [][NextMulti]_vars

\* The writer of the kind accepts all of a p of the length.
Accepts(kind, len) ==
    WriterWrite(kind, len).err = "nil" /\ WriterWrite(kind, len).n = len

\* The writers before the i-th of ws accept all of p.
AllBefore(ws, i, len) == \A j \in 1..(i - 1) : Accepts(ws[j], len)

\* C26: Write hands p to the writers in the order they were given, each at
\* most once; a writer receives p only if every writer before it accepted
\* all of it; the call returns the error of the first writer that did not
\* (io.ErrShortWrite for a wrong count without error), and len(p) with a
\* nil error only when every writer accepted all of p.
C26_MultiWrite ==
    (probe.op = "multi" /\ probe.step # "new") =>
        /\ probe.received = [j \in 1..Len(probe.received) |-> j]
        /\ probe.writers = probe.given
        /\ \A j \in DOMAIN probe.received : AllBefore(probe.given, j, probe.len)
        /\ probe.step = "returned" =>
              /\ \/ Len(probe.received) = Len(probe.given)
                 \/ ~Accepts(probe.given[Len(probe.received)], probe.len)
              /\ (probe.err = "nil") =
                    (\A j \in DOMAIN probe.given : Accepts(probe.given[j], probe.len))
              /\ probe.err = "nil" => probe.n = probe.len
              /\ probe.err = ErrShortWrite =>
                    /\ WriterWrite(probe.given[Len(probe.received)], probe.len).err = "nil"
                    /\ probe.n # probe.len

\* C26 witness: three writers, the second takes one byte less than len(p)
\* without an error: the call returned io.ErrShortWrite and the third
\* writer received nothing.
C26_Witness ==
    /\ probe.op = "multi" /\ probe.step = "returned"
    /\ probe.given = <<"all", "short", "all">> /\ probe.len = 2
    /\ probe.received = <<1, 2>>
    /\ probe.err = ErrShortWrite /\ probe.n = 1

\* The token of the key of a top-level attribute in a line of the format.
KeyToken(json, key) == IF json THEN Quote(key) ELSE key

\* The line has the token.
HasToken(line, tok) == \E j \in DOMAIN line : line[j] = tok

\* The line shows what the Replacer made of the Field of one of its calls:
\* nothing of a Field it emptied, the new key and not the old one of a
\* Field it renamed (JSON; the text format writes the level without key).
ShowsReplaced(json, rep, line, call) ==
    /\ isEmpty(Replace(rep, 0, call.groups, call.field)) =>
          ~HasToken(line, KeyToken(json, call.field.Key))
    /\ (json /\ ~isEmpty(Replace(rep, 0, call.groups, call.field))
             /\ Replace(rep, 0, call.groups, call.field).Key # call.field.Key) =>
          /\ HasToken(line, KeyToken(json, Replace(rep, 0, call.groups, call.field).Key))
          /\ ~HasToken(line, KeyToken(json, call.field.Key))

\* C27: with a Replacer, the line shows for every Field the Replacer was
\* called with (accumulated, per-call, level and message) what the Replacer
\* returned: a Field it emptied is omitted, a Field it renamed has the new
\* key.
C27_ReplacerResult ==
    (probe.op = "replaced" /\ probe.rep # "nil") =>
        /\ \A j \in DOMAIN probe.withReps :
              ShowsReplaced(probe.json, probe.rep, probe.line, probe.withReps[j])
        /\ \A j \in DOMAIN probe.logReps :
              ShowsReplaced(probe.json, probe.rep, probe.line, probe.logReps[j])

(***************************************************************************)
(* SpecPairs: keys and their values.  The inputs are a handler (format,    *)
(* Replacer), a key, a Value (the constants, the values whose rendering    *)
(* panics, Valuers that return a value, another Valuer, themselves, that   *)
(* panic, and the Valuer whose function is nil), the way it reaches the    *)
(* handler (accumulated through With or passed to the log call), its place *)
(* (top level or inside a group) and the attributes around it; the step    *)
(* logs one call.                                                          *)
(***************************************************************************)
PairValuers ==
    {Caller, Timestamp, nilValuer, panickingValuer, replacedValuer(1), replacedValuer(6),
     ValuerFn("chain", 2), ValuerFn("self", 0), ValuerFn("bad", 1)}

PairValues ==
    {GoValue(ConstVals[i]) : i \in DOMAIN ConstVals}
    \cup {GoValue(BadVals[i]) : i \in DOMAIN BadVals}
    \cup {GoValuer(fn) : fn \in PairValuers}
    \cup {GoNil, GoInt(1)}

InitPairs ==
    \E json \in BOOLEAN, rep \in Replacers, x \in PairValues, place \in {"With", "Log"},
       inGroup \in BOOLEAN, before \in RoundTripBefore, after \in RoundTripAfter :
        InitProbe(<<>>, "w1",
                  [op |-> "pair", json |-> json, rep |-> rep, x |-> x, place |-> place,
                   inGroup |-> inGroup, before |-> before, after |-> after])

\* The inputs p with the state s of the call.
PairResult(p, s) ==
    [op |-> "paired", json |-> p.json, rep |-> p.rep, x |-> p.x, place |-> p.place,
     inGroup |-> p.inGroup, line |-> s.buf, panicked |-> s.panicked]

WritePair ==
    /\ probe.op = "pair"
    /\ probe' = PairResult(probe,
                    Rendered(probe.json, probe.rep, probe.place,
                             RoundTripKvs("k", probe.x, probe.inGroup,
                                          probe.before, probe.after)))
    /\ UNCHANGED <<handlers, heap, loggers, mutexes, out, writing, clock, pc, loc, done, hist>>

NextPairs == WritePair

SpecPairs == InitPairs /\ [][NextPairs]_vars

\* The token between a key and its value, and the tokens that cannot begin
\* a value.
KeyEnd(json) == IF json THEN ":" ELSE "="
NoValue == {",", " ", "}", "\n"}

\* Every key of the line has a value and every value a key: the token
\* after the end of a key begins a value, and what follows a separator (in
\* JSON an opening brace too) is a key with its end, or the closing brace
\* right after the opening one.
Paired(json, line) ==
    \A j \in DOMAIN line :
        /\ line[j] = KeyEnd(json) =>
              /\ j > 1 /\ j < Len(line)
              /\ line[j + 1] \notin NoValue
        /\ (line[j] = attrSep(json) \/ (json /\ line[j] = "{")) =>
              \/ json /\ line[j] = "{" /\ j < Len(line) /\ line[j + 1] = "}"
              \/ j + 2 <= Len(line) /\ line[j + 2] = KeyEnd(json)

\* C28: in every line that is emitted, whatever Value the attribute k
\* carries through With or the log call, every key is followed by one
\* value and every value has its key.
C28_KeyValue ==
    (probe.op = "paired" /\ ~probe.panicked) => Paired(probe.json, probe.line)

(***************************************************************************)
(* SpecNesting: the groups around a Field.  The inputs are a handler       *)
(* (format, Replacer), the groups already open when appendField is called, *)
(* the Field (a leaf, groups inside groups, inlined groups, groups with a  *)
(* deferred Valuer, with an elided or empty child, without children) and   *)
(* the caller (withFields or handle); the step calls appendField in the    *)
(* state with the open groups, and withFields and handle with the Field.   *)
(***************************************************************************)
NestingFields ==
    [leaf      |-> IntField("k", 1),
     group     |-> GroupField("g", <<GoString("a"), GoInt(1),
                                     GoField(GroupField("h", <<GoString("b"), GoInt(2)>>)),
                                     GoString("c"), GoInt(3)>>),
     deep      |-> GroupField("g", <<GoField(GroupField("h",
                                     <<GoField(GroupField("i", <<GoString("a"), GoInt(1)>>))>>))>>),
     inline    |-> GroupField("", <<GoString("a"), GoInt(1)>>),
     inlineIn  |-> GroupField("g", <<GoField(GroupField("", <<GoString("a"), GoInt(1)>>)),
                                     GoString("b"), GoInt(2)>>),
     valuerIn  |-> GroupField("g", <<GoString("k"), GoValuer(Caller), GoString("n"), GoInt(1)>>),
     valuerEnd |-> GroupField("g", <<GoField(GroupField("h",
                                     <<GoString("k"), GoValuer(Timestamp)>>))>>),
     elided    |-> GroupField("g", <<GoString("pw"), GoString("v")>>),
     emptyIn   |-> GroupField("g", <<GoField(EmptyField), GoString("a"), GoInt(1)>>),
     childless |-> GroupField("g", <<>>),
     returned  |-> GroupField("g", <<GoString("k"), GoValuer(replacedValuer(6))>>)]

OpenGroups == {<<>>, <<"o">>, <<"o", "p">>}

\* The state after openGroup for each name of the list.
RECURSIVE openAll(_, _)
openAll(s, names) ==
    IF Len(names) = 0 THEN s ELSE openAll(openGroup(s, Head(names)), Tail(names))

\* The bytes of the segments.
RECURSIVE SegmentBytes(_)
SegmentBytes(segs) ==
    IF Len(segs) = 0 THEN <<>> ELSE segs[1].bytes \o SegmentBytes(Tail(segs))

\* All the state has written: the segments it stored and its buffer.
Written(s) == SegmentBytes(SliceElems(s.heap, s.pre)) \o s.buf

\* The text keys among the tokens: the tokens before "=".
RECURSIVE TextKeys(_)
TextKeys(toks) ==
    IF Len(toks) < 2 THEN <<>>
    ELSE (IF toks[2] = "=" THEN <<toks[1]>> ELSE <<>>) \o TextKeys(Tail(toks))

RECURSIVE JoinDots(_)
JoinDots(path) == IF Len(path) = 0 THEN "" ELSE Head(path) \o "." \o JoinDots(Tail(path))

\* The keys of the leaves of the fields that a handler with the Replacer
\* renders, each behind the names of the groups around it.
RECURSIVE LeafPaths(_, _, _)
LeafPaths(fields, path, rep) ==
    IF Len(fields) = 0 THEN <<>>
    ELSE (IF fields[1].Value.kind = KindGroup
          THEN LeafPaths(fields[1].Value.group,
                         IF fields[1].Key # "" THEN Append(path, fields[1].Key) ELSE path,
                         rep)
          ELSE IF isEmpty(Replace(rep, 0, path, fields[1])) THEN <<>>
          ELSE <<JoinDots(path) \o Replace(rep, 0, path, fields[1]).Key>>)
         \o LeafPaths(Tail(fields), path, rep)

InitNesting ==
    \E json \in BOOLEAN, rep \in Replacers, open \in OpenGroups,
       f \in DOMAIN NestingFields, isPreformat \in BOOLEAN :
        InitProbe(<<>>, "w1",
                  [op |-> "nest", json |-> json, rep |-> rep, open |-> open, f |-> f,
                   isPreformat |-> isPreformat])

\* The inputs p, the state s0 with the groups open, the state s1 after
\* appendField, the state sw at the end of withFields and the state sh at
\* the end of handle.
NestingResult(p, s0, s1, sw, sh) ==
    [op |-> "nested", json |-> p.json, rep |-> p.rep, open |-> p.open, f |-> p.f,
     isPreformat |-> p.isPreformat,
     entry |-> [groups |-> s0.groups, prefix |-> s0.prefix],
     exit |-> [groups |-> s1.groups, prefix |-> s1.prefix],
     keys |-> TextKeys(SubSeq(Written(s1), Len(Written(s0)) + 1, Len(Written(s1)))),
     withFields |-> [groups |-> sw.groups, prefix |-> sw.prefix],
     handle |-> [groups |-> sh.groups, prefix |-> sh.prefix]]

\* appendField, withFields and handle on the handler r for the inputs p.
NestingOn(p, r) ==
    NestingResult(p,
        openAll(newHandleState(r.h, r.heap, attrSep(p.json)), p.open),
        appendField(openAll(newHandleState(r.h, r.heap, attrSep(p.json)), p.open),
                    0, 1, NestingFields[p.f], p.isPreformat),
        appendFields(newHandleState(clone(r.h), r.heap, attrSep(p.json)), 0, 0,
                     <<IntField("b", 1), NestingFields[p.f]>>, TRUE, FALSE),
        handleFormat(r.h, r.heap, 0, 1, LevelInfo, "hello",
                     <<GoField(NestingFields[p.f]), GoString("x"), GoInt(3)>>))

Nest ==
    /\ probe.op = "nest"
    /\ probe' = NestingOn(probe, newCommonHandler(<<>>, probe.json, "", probe.rep, 1))
    /\ UNCHANGED <<handlers, heap, loggers, mutexes, out, writing, clock, pc, loc, done, hist>>

NextNesting == Nest

SpecNesting == InitNesting /\ [][NextNesting]_vars

\* The text prefix of the open groups.
RECURSIVE PrefixOf(_)
PrefixOf(names) ==
    IF Len(names) = 0 THEN <<>> ELSE <<Head(names), ".">> \o PrefixOf(Tail(names))

\* C29: appendField leaves the stack of group names and the text prefix as
\* it found them, whatever groups the Field opens and closes inside; both
\* are empty at the end of withFields and of handle; and in text the keys
\* appendField writes are the keys of the leaves behind the names of the
\* groups open around them, joined by '.'.
C29_Balanced ==
    probe.op = "nested" =>
        /\ probe.exit = probe.entry
        /\ probe.entry.groups = (IF probe.rep # "nil" THEN probe.open ELSE <<>>)
        /\ probe.entry.prefix = (IF probe.json THEN <<>> ELSE PrefixOf(probe.open))
        /\ probe.withFields = [groups |-> <<>>, prefix |-> <<>>]
        /\ probe.handle = [groups |-> <<>>, prefix |-> <<>>]
        /\ ~probe.json =>
              probe.keys = LeafPaths(<<NestingFields[probe.f]>>, probe.open, probe.rep)

\* C29 witness: text, two groups open, the Field g(h(i(a=1))): the key
\* written is o.p.g.h.i.a, and the prefix is o.p. again.
C29_Witness ==
    /\ probe.op = "nested" /\ ~probe.json /\ probe.f = "deep"
    /\ probe.open = <<"o", "p">> /\ probe.rep # "nil"
    /\ probe.keys = <<"o.p.g.h.i.a">>
    /\ probe.exit.prefix = <<"o", ".", "p", ".">>
    /\ probe.exit.groups = <<"o", "p">>

(***************************************************************************)
(* SpecManager: Manager.Add from two goroutines.  The Manager has its main *)
(* name, the map `others` (name -> logger, 0 for no entry) and its mutex;  *)
(* every goroutine makes up to MaxAdds calls of Add, one step at a time:   *)
(* the two tests at the head of Add (they read m.others without the        *)
(* mutex), New and set in initLogger, Lock, the store into m.others, and   *)
(* the deferred Unlock with the return.  A test that reads the map while   *)
(* another goroutine is at its store is a data race on a Go map: it reads  *)
(* the map as it was or as it will be (the test before or after the        *)
(* store), or the runtime ends the process ("concurrent map read and map   *)
(* write").                                                                *)
(***************************************************************************)
MaxAdds == 2
MainName == "app"
ManagerNames == {"app", "db", "rpc"}

AddIdle(left) == [pc |-> "idle", name |-> "", l |-> 0, left |-> left]

InitManager ==
    InitProbe(<<>>, "w1",
              [op |-> "manager", name |-> MainName,
               others |-> [n \in ManagerNames |-> 0],
               mu |-> "", loggers |-> 1, crashed |-> FALSE,
               calls |-> [g \in Goroutines |-> AddIdle(MaxAdds)],
               returned |-> {}])

\* The frame of g and the record of a call of g that returned.
AddFrame(g) == probe.calls[g]
AddReturned(g, ok) ==
    [g |-> g, call |-> AddFrame(g).left, name |-> AddFrame(g).name, ok |-> ok,
     l |-> IF ok THEN AddFrame(g).l ELSE 0]

AddRunning(g) == probe.op = "manager" /\ ~probe.crashed

\* go m.Add(name)
AddCall(g, name) ==
    /\ AddRunning(g)
    /\ AddFrame(g).pc = "idle" /\ AddFrame(g).left > 0
    /\ probe' = [probe EXCEPT !.calls[g] = [pc |-> "test", name |-> name, l |-> 0,
                                            left |-> AddFrame(g).left - 1]]
    /\ UNCHANGED <<handlers, heap, loggers, mutexes, out, writing, clock, pc, loc, done, hist>>

\* if name == m.name { return error }; if _, ok := m.others[name]; ok
\* { return error }
AddTest(g) ==
    /\ AddRunning(g)
    /\ AddFrame(g).pc = "test"
    /\ probe' = IF AddFrame(g).name = probe.name \/ probe.others[AddFrame(g).name] # 0
                THEN [probe EXCEPT !.calls[g] = AddIdle(AddFrame(g).left),
                                   !.returned = @ \cup {AddReturned(g, FALSE)}]
                ELSE [probe EXCEPT !.calls[g].pc = "init"]
    /\ UNCHANGED <<handlers, heap, loggers, mutexes, out, writing, clock, pc, loc, done, hist>>

\* The read of m.others in the test while another goroutine writes the map.
AddTestRaced(g) ==
    /\ AddRunning(g)
    /\ AddFrame(g).pc = "test" /\ AddFrame(g).name # probe.name
    /\ \E g2 \in Goroutines \ {g} : probe.calls[g2].pc = "store"
    /\ probe' = [probe EXCEPT !.crashed = TRUE]
    /\ UNCHANGED <<handlers, heap, loggers, mutexes, out, writing, clock, pc, loc, done, hist>>

\* initLogger: l := New(os.Stderr); m.set(name, l, fields)
AddInit(g) ==
    /\ AddRunning(g)
    /\ AddFrame(g).pc = "init"
    /\ probe' = [probe EXCEPT !.calls[g].pc = "lock", !.calls[g].l = probe.loggers,
                              !.loggers = @ + 1]
    /\ UNCHANGED <<handlers, heap, loggers, mutexes, out, writing, clock, pc, loc, done, hist>>

\* initLogger: m.mu.Lock()
AddLock(g) ==
    /\ AddRunning(g)
    /\ AddFrame(g).pc = "lock" /\ probe.mu = ""
    /\ probe' = [probe EXCEPT !.calls[g].pc = "store", !.mu = g]
    /\ UNCHANGED <<handlers, heap, loggers, mutexes, out, writing, clock, pc, loc, done, hist>>

\* initLogger: m.others[name] = &logChannel{fields, l}
AddStore(g) ==
    /\ AddRunning(g)
    /\ AddFrame(g).pc = "store"
    /\ probe' = [probe EXCEPT !.calls[g].pc = "unlock",
                              !.others[AddFrame(g).name] = AddFrame(g).l]
    /\ UNCHANGED <<handlers, heap, loggers, mutexes, out, writing, clock, pc, loc, done, hist>>

\* initLogger: the deferred m.mu.Unlock(), and Add returns l, nil.
AddUnlock(g) ==
    /\ AddRunning(g)
    /\ AddFrame(g).pc = "unlock"
    /\ probe' = [probe EXCEPT !.calls[g] = AddIdle(AddFrame(g).left), !.mu = "",
                              !.returned = @ \cup {AddReturned(g, TRUE)}]
    /\ UNCHANGED <<handlers, heap, loggers, mutexes, out, writing, clock, pc, loc, done, hist>>

NextManager ==
    \E g \in Goroutines :
        \/ \E name \in ManagerNames : AddCall(g, name)
        \/ AddTest(g)
        \/ AddTestRaced(g)
        \/ AddInit(g)
        \/ AddLock(g)
        \/ AddStore(g)
        \/ AddUnlock(g)

SpecManager == InitManager /\ [][NextManager]_vars

\* C30: every name is registered at most once.  No Add of the main name
\* succeeds; of the Add calls for one name at most one succeeds, and the
\* registry holds the logger it returned; a call that returned an error
\* stored nothing (no logger but those of the calls in progress and of the
\* successful ones is in the registry); when all calls for a name have
\* returned, one of them has succeeded; and no Add ends the process.
C30_AddOnce ==
    probe.op = "manager" =>
        /\ ~probe.crashed
        /\ \A r \in probe.returned : r.ok => r.name # probe.name
        /\ \A r1, r2 \in probe.returned :
              (r1.ok /\ r2.ok /\ r1.name = r2.name) => r1 = r2
        /\ \A r \in probe.returned : r.ok => probe.others[r.name] = r.l
        /\ \A n \in ManagerNames : probe.others[n] # 0 =>
              \/ \E r \in probe.returned : r.ok /\ r.name = n /\ r.l = probe.others[n]
              \/ \E g \in Goroutines :
                    /\ probe.calls[g].pc = "unlock" /\ probe.calls[g].name = n
                    /\ probe.calls[g].l = probe.others[n]
        /\ \A r \in probe.returned :
              (~r.ok /\ r.name # probe.name) =>
                  \/ probe.others[r.name] # 0
                  \/ \E r2 \in probe.returned : r2.ok /\ r2.name = r.name

====
